---- MODULE Spec2Model ----
(***************************************************************************)
(* A model of outdated-plus: the bounded-concurrency fetch scheduler       *)
(* (src/lib/concurrency.ts), the version comparator and the skip rules     *)
(* (src/lib/utils.ts), the skip-file cleanup (src/args.ts) and the row     *)
(* builder (buildRows).                                                    *)
(*                                                                         *)
(* Strings whose characters matter (version strings, package names, skip   *)
(* entries) are sequences of one-character strings; strings that are only  *)
(* compared for equality (item keys, result values) are TLA+ strings.      *)
(***************************************************************************)
EXTENDS Integers, Sequences, FiniteSets, TLC

VARIABLES
    \* ---- fetchWithConcurrency: arguments
    items,          \* items: string[]
    concurrency,    \* concurrency: number
    fallbackValue,  \* fallbackValue: T
    \* ---- fetchWithConcurrency: locals and promise state
    pc,             \* position of the async function: "start", "awaiting", "done"
    results,        \* results: Record<string, T>
    inFlight,       \* let inFlight
    index,          \* let index (0-based, as in the code)
    ops,            \* per launched position: the fetcher promise and its reaction chain
    resolveCalls,   \* number of calls of resolve() of the awaited promise
    returned,       \* the mapping the call resolved with
    \* ---- instrumentation a test double records (vi.fn)
    fetcherCalls,   \* arguments of the fetcher calls, in call order
    progressCalls,  \* number of onProgress() calls
    writeCount,     \* per position: number of writes its callbacks made to results
    \* ---- version comparator: arguments and results
    ver,            \* the version strings under comparison
    verOut,         \* results of the comparator operations on them
    \* ---- skip rules: arguments and results
    skipPackages,   \* skipEntries / skipPackages: string[]
    skipArgs,       \* packageName, currentVersion, wantedVersion, latestVersion
    skipOut,        \* results of parseSkipEntry / shouldSkipPackage on them
    \* ---- cleanupAndSaveSkipFile: arguments, local and the file
    skipConfig,     \* skipConfig: SkipFileConfig | null
    skipFilePath,   \* skipFilePath: string | null
    cleanupPc,      \* position of the call: "idle", "start", "done"
    cleanedPackages,\* const cleanedPackages (Null until computed)
    skipFile,       \* content of the skip file on disk
    \* ---- buildRows / daysAgo: arguments, clock and results
    outdated,       \* outdated: OutdatedMap, its entries in key order
    metas,          \* metas: Record<string, Meta>
    now,            \* Date.now()
    rowsOut,        \* rows returned by buildRows, per (showAll, cutoffDays)
    ageOut,         \* results of daysAgo, per timestamp
    \* ---- sortRows: arguments and result
    rows,           \* rows: Row[], the array passed in
    sortBy,         \* sortBy: Args['sortBy']
    order,          \* order: Args['order']
    sorted          \* the array sortRows returned (Null until it has)

schedVars == <<items, concurrency, fallbackValue, pc, results, inFlight, index,
               ops, resolveCalls, returned, fetcherCalls, progressCalls, writeCount>>
verVars == <<ver, verOut>>
skipVars == <<skipPackages, skipArgs, skipOut>>
cleanupVars == <<skipConfig, skipFilePath, cleanupPc, cleanedPackages, skipFile>>
rowsVars == <<outdated, metas, now, rowsOut, ageOut>>
sortVars == <<rows, sortBy, order, sorted>>
pkgVars == <<skipVars, cleanupVars, rowsVars, sortVars>>
vars == <<schedVars, verVars, pkgVars>>

(***************************************************************************)
(* Bounds of the model.                                                    *)
(***************************************************************************)
MaxItems == 3
MaxConcurrency == 2

Keys == {"a", "b"}
Values == {"r1", "r2"}
FallbackValues == {"fb", "r1"}
ConcurrencyInputs == (0 - 1) .. MaxConcurrency

RECURSIVE SeqsUpTo(_, _)
SeqsUpTo(S, n) ==
    IF n = 0 THEN {<<>>}
    ELSE LET shorter == SeqsUpTo(S, n - 1)
         IN shorter \cup {Append(s, x) : s \in {t \in shorter : Len(t) = n - 1}, x \in S}

Max(a, b) == IF a >= b THEN a ELSE b

Range(f) == {f[x] : x \in DOMAIN f}

(***************************************************************************)
(* fetchWithConcurrency                                                    *)
(***************************************************************************)
EmptyRecord == [k \in {} |-> "r1"]

\* results[item] = value
SetKey(rec, k, v) == [x \in (DOMAIN rec) \cup {k} |-> IF x = k THEN v ELSE rec[x]]

\* const limit = Math.max(1, concurrency)
limitAtLeastTwo == Max(2, concurrency)

limitAsGiven == concurrency

limit == Max(1, concurrency)

NewOp == [stage |-> "idle", outcome |-> "none", value |-> "none"]

\* The while loop of tick(): how many items it launches from (inF, idx).
RECURSIVE TickLaunchesOffByOne(_, _)
TickLaunchesOffByOne(inF, idx) ==
    IF inF <= limit /\ idx < Len(items)
    THEN 1 + TickLaunchesOffByOne(inF + 1, idx + 1)
    ELSE 0

TickLaunchesAtMostOne(inF, idx) ==
    IF inF < limit /\ idx < Len(items) THEN 1 ELSE 0

RECURSIVE TickLaunches(_, _)
TickLaunches(inF, idx) ==
    IF inF < limit /\ idx < Len(items)
    THEN 1 + TickLaunches(inF + 1, idx + 1)
    ELSE 0

\* The launches of one tick(): positions idx+1 .. idx+n get a pending fetcher
\* promise (fetcher(item) was called), the others are left as they are.
Launch(opsNow, idx, n) ==
    [i \in DOMAIN opsNow |->
        IF idx < i /\ i <= idx + n THEN [opsNow[i] EXCEPT !.stage = "pending"]
        ELSE opsNow[i]]

\* tick() called with the counters (inF, idx) and the operations opsNow.
Tick(inF, idx, opsNow) ==
    LET n == TickLaunches(inF, idx)
    IN /\ index' = idx + n
       /\ inFlight' = inF + n
       /\ fetcherCalls' = fetcherCalls \o SubSeq(items, idx + 1, idx + n)
       /\ ops' = Launch(opsNow, idx, n)

\* results[item] = result, in the then-callback of position i
ThenWriteLastLaunched(rec, i) == SetKey(rec, items[index], ops[i].value)

ThenWrite(rec, i) == SetKey(rec, items[i], ops[i].value)

\* results[item] = fallbackValue, in the catch-callback of position i
CatchWriteSkipped(rec, i) == rec

CatchWrite(rec, i) == SetKey(rec, items[i], fallbackValue)

\* index >= items.length && inFlight === 0, the test of the finally-callback
AllSettledIgnoringInFlight(inF, idx) == idx >= Len(items)

AllSettledIgnoringIndex(inF, idx) == inF = 0

AllSettledPastEnd(inF, idx) == idx > Len(items) /\ inF = 0

AllSettled(inF, idx) == idx >= Len(items) /\ inF = 0

\* The call up to its await: the empty-items return, or the first tick().
Call ==
    /\ pc = "start"
    /\ IF Len(items) = 0
       THEN /\ pc' = "done"
            /\ returned' = EmptyRecord
            /\ UNCHANGED <<index, inFlight, fetcherCalls, ops>>
       ELSE /\ pc' = "awaiting"
            /\ Tick(0, 0, ops)
            /\ UNCHANGED returned
    /\ UNCHANGED <<items, concurrency, fallbackValue, results, resolveCalls,
                   progressCalls, writeCount>>
    /\ UNCHANGED <<verVars, pkgVars>>

\* The environment settles the promise fetcher(item) returned for position i:
\* fulfilled with some value, or rejected.
Settle(i) ==
    /\ i \in DOMAIN ops
    /\ ops[i].stage = "pending"
    /\ \/ \E v \in Values :
            ops' = [ops EXCEPT ![i] = [stage |-> "then", outcome |-> "ok", value |-> v]]
       \/ ops' = [ops EXCEPT ![i] = [stage |-> "then", outcome |-> "fail", value |-> "none"]]
    /\ UNCHANGED <<items, concurrency, fallbackValue, pc, results, inFlight, index,
                   resolveCalls, returned, fetcherCalls, progressCalls, writeCount>>
    /\ UNCHANGED <<verVars, pkgVars>>

\* .then((result) => { results[item] = result; }): runs on fulfilment, and a
\* rejection passes through to the next link of the chain.
ThenStep(i) ==
    /\ i \in DOMAIN ops
    /\ ops[i].stage = "then"
    /\ ops' = [ops EXCEPT ![i].stage = "catch"]
    /\ IF ops[i].outcome = "ok"
       THEN /\ results' = ThenWrite(results, i)
            /\ writeCount' = [writeCount EXCEPT ![i] = @ + 1]
       ELSE UNCHANGED <<results, writeCount>>
    /\ UNCHANGED <<items, concurrency, fallbackValue, pc, inFlight, index,
                   resolveCalls, returned, fetcherCalls, progressCalls>>
    /\ UNCHANGED <<verVars, pkgVars>>

\* .catch(() => { results[item] = fallbackValue; }): runs on rejection only.
CatchStep(i) ==
    /\ i \in DOMAIN ops
    /\ ops[i].stage = "catch"
    /\ ops' = [ops EXCEPT ![i].stage = "finally"]
    /\ IF ops[i].outcome = "fail"
       THEN /\ results' = CatchWrite(results, i)
            /\ writeCount' = [writeCount EXCEPT ![i] = @ + 1]
       ELSE UNCHANGED <<results, writeCount>>
    /\ UNCHANGED <<items, concurrency, fallbackValue, pc, inFlight, index,
                   resolveCalls, returned, fetcherCalls, progressCalls>>
    /\ UNCHANGED <<verVars, pkgVars>>

\* .finally(() => { inFlight -= 1; onProgress(); resolve() or tick() })
FinallyStep(i) ==
    /\ i \in DOMAIN ops
    /\ ops[i].stage = "finally"
    /\ progressCalls' = progressCalls + 1
    /\ LET done == [ops EXCEPT ![i].stage = "done"]
       IN IF AllSettled(inFlight - 1, index)
          THEN /\ resolveCalls' = resolveCalls + 1
               /\ inFlight' = inFlight - 1
               /\ ops' = done
               /\ UNCHANGED <<index, fetcherCalls>>
          ELSE /\ Tick(inFlight - 1, index, done)
               /\ UNCHANGED resolveCalls
    /\ UNCHANGED <<items, concurrency, fallbackValue, pc, results, returned, writeCount>>
    /\ UNCHANGED <<verVars, pkgVars>>

\* The await continues once resolve() was called: return results.
Return ==
    /\ pc = "awaiting"
    /\ resolveCalls > 0
    /\ pc' = "done"
    /\ returned' = results
    /\ UNCHANGED <<items, concurrency, fallbackValue, results, inFlight, index, ops,
                   resolveCalls, fetcherCalls, progressCalls, writeCount>>
    /\ UNCHANGED <<verVars, pkgVars>>

\* The comparator before any call: no inputs, no results.
NoVerOut == [higher |-> <<>>, bump |-> <<>>, parsed |-> <<>>]

VerIdle == /\ ver = <<>>
           /\ verOut = NoVerOut

\* The skip rules before any call: no arguments, no results.
NoSkipOut == [parsed |-> <<>>, should |-> <<>>]

SkipIdle == /\ skipPackages = <<>>
            /\ skipArgs = <<>>
            /\ skipOut = NoSkipOut

\* null / undefined.
Null == <<>>

\* No cleanupAndSaveSkipFile call is running.
CleanupIdle == /\ skipConfig = Null
               /\ skipFilePath = Null
               /\ cleanupPc = "idle"
               /\ cleanedPackages = Null
               /\ skipFile = Null

\* No buildRows / daysAgo call: nothing outdated, no metadata, no results.
RowsIdle == /\ outdated = <<>>
            /\ metas = <<>>
            /\ now = 0
            /\ rowsOut = <<>>
            /\ ageOut = <<>>

\* No sortRows call.
SortIdle == /\ rows = <<>>
            /\ sortBy = ""
            /\ order = ""
            /\ sorted = Null

PkgIdle == SkipIdle /\ CleanupIdle /\ RowsIdle /\ SortIdle

Init ==
    /\ items \in SeqsUpTo(Keys, MaxItems)
    /\ concurrency \in ConcurrencyInputs
    /\ fallbackValue \in FallbackValues
    /\ pc = "start"
    /\ results = EmptyRecord
    /\ inFlight = 0
    /\ index = 0
    /\ ops = [i \in 1 .. Len(items) |-> NewOp]
    /\ resolveCalls = 0
    /\ returned = EmptyRecord
    /\ fetcherCalls = <<>>
    /\ progressCalls = 0
    /\ writeCount = [i \in 1 .. Len(items) |-> 0]
    /\ VerIdle
    /\ PkgIdle

Next ==
    \/ Call
    \/ \E i \in DOMAIN ops : Settle(i)
    \/ \E i \in DOMAIN ops : ThenStep(i)
    \/ \E i \in DOMAIN ops : CatchStep(i)
    \/ \E i \in DOMAIN ops : FinallyStep(i)
    \/ Return

Spec == Init /\ [][Next]_vars

\* The event loop runs every callback that is ready, and the caller starts and
\* awaits the call: each of these steps stays enabled until it is taken.
LoopFairness ==
    /\ WF_vars(Call)
    /\ WF_vars(Return)
    /\ \A i \in 1 .. MaxItems :
          WF_vars(ThenStep(i)) /\ WF_vars(CatchStep(i)) /\ WF_vars(FinallyStep(i))

\* Every promise the fetcher returned is settled at some time.
FetcherSettles == \A i \in 1 .. MaxItems : WF_vars(Settle(i))

\* The calls followed to their end: one fallback value, a first item of one
\* name, and every concurrency from 0 (raised to the limit 1) upwards.
InitLive ==
    /\ Init
    /\ fallbackValue = "fb"
    /\ concurrency >= 0
    /\ Len(items) > 0 => items[1] = "a"

SpecLive == InitLive /\ [][Next]_vars /\ LoopFairness /\ FetcherSettles

(***************************************************************************)
(* Version strings: sequences of one-character strings.                    *)
(***************************************************************************)
DigitSeq == <<"0", "1", "2", "3", "4", "5", "6", "7", "8", "9">>
UpperSeq == <<"A", "B", "C", "D", "E", "F", "G", "H", "I", "J", "K", "L", "M",
              "N", "O", "P", "Q", "R", "S", "T", "U", "V", "W", "X", "Y", "Z">>
LowerSeq == <<"a", "b", "c", "d", "e", "f", "g", "h", "i", "j", "k", "l", "m",
              "n", "o", "p", "q", "r", "s", "t", "u", "v", "w", "x", "y", "z">>
Digits == {DigitSeq[i] : i \in DOMAIN DigitSeq}
Uppers == {UpperSeq[i] : i \in DOMAIN UpperSeq}
Lowers == {LowerSeq[i] : i \in DOMAIN LowerSeq}

IndexOf(seq, c) == CHOOSE i \in DOMAIN seq : seq[i] = c

\* The UTF-16 code unit of a character (ASCII).
Code(c) ==
    IF c \in Digits THEN 47 + IndexOf(DigitSeq, c)
    ELSE IF c \in Uppers THEN 64 + IndexOf(UpperSeq, c)
    ELSE IF c \in Lowers THEN 96 + IndexOf(LowerSeq, c)
    ELSE IF c = "+" THEN 43
    ELSE IF c = "-" THEN 45
    ELSE IF c = "." THEN 46
    ELSE IF c = "=" THEN 61
    ELSE IF c = "^" THEN 94
    ELSE 32

\* The character classes of the regular expression of parseSemver.
PrefixChars == {"v", "="}
\* [0-9A-Za-z.-]
IdentChars == Digits \cup Uppers \cup Lowers \cup {".", "-"}

\* Length of the longest run of characters of class cls in s from position i.
RECURSIVE SpanLen(_, _, _)
SpanLen(s, i, cls) ==
    IF i <= Len(s) /\ s[i] \in cls THEN 1 + SpanLen(s, i + 1, cls) ELSE 0

\* Number(m[k]) and parseInt(id, 10) of a string of decimal digits.
RECURSIVE DigitsToNat(_)
DigitsToNat(d) ==
    IF Len(d) = 0 THEN 0
    ELSE 10 * DigitsToNat(SubSeq(d, 1, Len(d) - 1)) + (IndexOf(DigitSeq, d[Len(d)]) - 1)

\* String.prototype.split('.') of a non-empty string.
RECURSIVE Split(_, _)
Split(s, sep) ==
    LET n == SpanLen(s, 1, {c \in Range(s) : c # sep})
    IN IF n = Len(s) THEN <<s>>
       ELSE <<SubSeq(s, 1, n)>> \o Split(SubSeq(s, n + 2, Len(s)), sep)

\* Array.prototype.join(sep)
RECURSIVE Join(_, _)
Join(parts, sep) ==
    IF Len(parts) = 0 THEN <<>>
    ELSE IF Len(parts) = 1 THEN parts[1]
    ELSE parts[1] \o <<sep>> \o Join(Tail(parts), sep)

\* The tail of the regular expression after the patch digits:
\* (?:-([0-9A-Za-z.-]+))?(?:\+[0-9A-Za-z.-]+)?$  matched against rest.
\* [matched |-> whether it matches, pre |-> group 4 (<<>> when absent)].
BuildMatchesAnything(rest) == TRUE

BuildMatches(rest) ==
    \/ Len(rest) = 0
    \/ /\ rest[1] = "+"
       /\ Len(rest) >= 2
       /\ SpanLen(rest, 2, IdentChars) = Len(rest) - 1

SuffixMatch(rest) ==
    IF Len(rest) > 0 /\ rest[1] = "-"
    THEN LET n == SpanLen(rest, 2, IdentChars)
         IN [matched |-> n >= 1 /\ BuildMatches(SubSeq(rest, n + 2, Len(rest))),
             pre |-> SubSeq(rest, 2, n + 1)]
    ELSE [matched |-> BuildMatches(rest), pre |-> <<>>]

\* parseSemver(v): <<major, minor, patch, prerelease>> or Null.
\* /^[v=]*(\d+)\.(\d+)\.(\d+)(?:-([0-9A-Za-z.-]+))?(?:\+[0-9A-Za-z.-]+)?$/
parseSemver(v) ==
    LET i1 == 1 + SpanLen(v, 1, PrefixChars)
        n1 == SpanLen(v, i1, Digits)
        i2 == i1 + n1 + 1
        n2 == SpanLen(v, i2, Digits)
        i3 == i2 + n2 + 1
        n3 == SpanLen(v, i3, Digits)
        rest == SubSeq(v, i3 + n3, Len(v))
        suffix == SuffixMatch(rest)
        m == /\ n1 >= 1
             /\ i2 - 1 <= Len(v) /\ v[i2 - 1] = "."
             /\ n2 >= 1
             /\ i3 - 1 <= Len(v) /\ v[i3 - 1] = "."
             /\ n3 >= 1
             /\ suffix.matched
    IN IF ~m THEN Null
       ELSE <<DigitsToNat(SubSeq(v, i1, i1 + n1 - 1)),
              DigitsToNat(SubSeq(v, i2, i2 + n2 - 1)),
              DigitsToNat(SubSeq(v, i3, i3 + n3 - 1)),
              IF Len(suffix.pre) > 0 THEN Split(suffix.pre, ".") ELSE <<>>>>

\* /^\d+$/.test(id)
IsNumericIdNever(id) == FALSE

IsNumericId(id) == Len(id) >= 1 /\ \A k \in DOMAIN id : id[k] \in Digits

\* id1 < id2 on strings: by code units, a proper prefix being the smaller.
StrLessNever(a, b) == FALSE

RECURSIVE StrLess(_, _)
StrLess(a, b) ==
    IF Len(b) = 0 THEN FALSE
    ELSE IF Len(a) = 0 THEN TRUE
    ELSE IF Code(a[1]) # Code(b[1]) THEN Code(a[1]) < Code(b[1])
    ELSE StrLess(Tail(a), Tail(b))

\* The for loop of comparePrereleaseIdentifiers from position i (1-based).
RECURSIVE ComparePreFrom(_, _, _)
ComparePreFrom(pre1, pre2, i) ==
    IF i > Max(Len(pre1), Len(pre2)) THEN 0
    ELSE IF i > Len(pre1) THEN 0 - 1
    ELSE IF i > Len(pre2) THEN 1
    ELSE LET id1 == pre1[i]
             id2 == pre2[i]
             isNum1 == IsNumericId(id1)
             isNum2 == IsNumericId(id2)
         IN IF isNum1 /\ isNum2
            THEN IF DigitsToNat(id1) < DigitsToNat(id2) THEN 0 - 1
                 ELSE IF DigitsToNat(id1) > DigitsToNat(id2) THEN 1
                 ELSE ComparePreFrom(pre1, pre2, i + 1)
            ELSE IF isNum1 THEN 0 - 1
            ELSE IF isNum2 THEN 1
            ELSE IF StrLess(id1, id2) THEN 0 - 1
            ELSE IF StrLess(id2, id1) THEN 1
            ELSE ComparePreFrom(pre1, pre2, i + 1)

\* comparePrereleaseIdentifiers(pre1, pre2): -1, 0 or 1.
comparePrereleaseReleasedLower(pre1, pre2) ==
    IF Len(pre1) = 0 /\ Len(pre2) > 0 THEN 0 - 1
    ELSE IF Len(pre1) > 0 /\ Len(pre2) = 0 THEN 1
    ELSE IF Len(pre1) = 0 /\ Len(pre2) = 0 THEN 0
    ELSE ComparePreFrom(pre1, pre2, 1)

comparePrereleaseIdentifiers(pre1, pre2) ==
    IF Len(pre1) = 0 /\ Len(pre2) > 0 THEN 1
    ELSE IF Len(pre1) > 0 /\ Len(pre2) = 0 THEN 0 - 1
    ELSE IF Len(pre1) = 0 /\ Len(pre2) = 0 THEN 0
    ELSE ComparePreFrom(pre1, pre2, 1)

\* The for loop over major, minor, patch of isVersionHigher from component i.
RECURSIVE HigherFromOrEqual(_, _, _)
HigherFromOrEqual(v1, v2, i) ==
    IF i > 3 THEN comparePrereleaseIdentifiers(v1[4], v2[4]) >= 0
    ELSE IF v1[i] > v2[i] THEN TRUE
    ELSE IF v1[i] < v2[i] THEN FALSE
    ELSE HigherFromOrEqual(v1, v2, i + 1)

RECURSIVE HigherFrom(_, _, _)
HigherFrom(v1, v2, i) ==
    IF i > 3 THEN comparePrereleaseIdentifiers(v1[4], v2[4]) > 0
    ELSE IF v1[i] > v2[i] THEN TRUE
    ELSE IF v1[i] < v2[i] THEN FALSE
    ELSE HigherFrom(v1, v2, i + 1)

\* isVersionHigher(version1, version2)
isVersionHigher(version1, version2) ==
    LET v1 == parseSemver(version1)
        v2 == parseSemver(version2)
    IN IF v1 = Null \/ v2 = Null THEN FALSE
       ELSE HigherFrom(v1, v2, 1)

\* bumpType(fromV, toV)
bumpTypeIgnoringPrerelease(fromV, toV) ==
    LET a == parseSemver(fromV)
        b == parseSemver(toV)
    IN IF a = Null \/ b = Null THEN "unknown"
       ELSE IF a[1] = b[1] /\ a[2] = b[2] /\ a[3] = b[3] THEN "same"
       ELSE IF a[1] # b[1] THEN "major"
       ELSE IF a[2] # b[2] THEN "minor"
       ELSE "patch"

bumpTypePreByReference(fromV, toV) ==
    LET a == parseSemver(fromV)
        b == parseSemver(toV)
    IN IF a = Null \/ b = Null THEN "unknown"
       ELSE IF a[1] = b[1] /\ a[2] = b[2] /\ a[3] = b[3]
            THEN IF Len(a[4]) = 0 /\ Len(b[4]) = 0 THEN "same" ELSE "prerelease"
       ELSE IF a[1] # b[1] THEN "major"
       ELSE IF a[2] # b[2] THEN "minor"
       ELSE "patch"

bumpType(fromV, toV) ==
    LET a == parseSemver(fromV)
        b == parseSemver(toV)
    IN IF a = Null \/ b = Null THEN "unknown"
       ELSE IF a[1] = b[1] /\ a[2] = b[2] /\ a[3] = b[3]
            THEN IF Join(a[4], ".") = Join(b[4], ".") THEN "same" ELSE "prerelease"
       ELSE IF a[1] # b[1] THEN "major"
       ELSE IF a[2] # b[2] THEN "minor"
       ELSE IF a[3] # b[3] THEN "patch"
       ELSE "unknown"

(***************************************************************************)
(* The comparator applied to version strings.                              *)
(***************************************************************************)
\* Decimal digits of a natural number below 100 (to write the inputs).
NumStr(n) == IF n < 10 THEN <<DigitSeq[n + 1]>>
             ELSE <<DigitSeq[(n \div 10) + 1], DigitSeq[(n % 10) + 1]>>

\* prefix major.minor.patch[-ids joined by dots][+build]
MkVersion(prefix, maj, min, pat, ids, build) ==
    prefix \o NumStr(maj) \o <<".">> \o NumStr(min) \o <<".">> \o NumStr(pat)
    \o (IF Len(ids) = 0 THEN <<>> ELSE <<"-">> \o Join(ids, "."))
    \o (IF Len(build) = 0 THEN <<>> ELSE <<"+">> \o build)

Alpha == <<"a", "l", "p", "h", "a">>
Beta == <<"b", "e", "t", "a">>
Rc == <<"r", "c">>

\* The SemVer 2.0.0 chain, lowest first:
\* 1.0.0-alpha < 1.0.0-alpha.1 < 1.0.0-alpha.beta < 1.0.0-beta < 1.0.0-beta.2
\* < 1.0.0-beta.11 < 1.0.0-rc.1 < 1.0.0
ChainPre == <<
    <<Alpha>>, <<Alpha, <<"1">>>>, <<Alpha, Beta>>, <<Beta>>, <<Beta, <<"2">>>>,
    <<Beta, <<"1", "1">>>>, <<Rc, <<"1">>>>, <<>> >>
Chain == [k \in DOMAIN ChainPre |-> MkVersion(<<>>, 1, 0, 0, ChainPre[k], <<>>)]

\* Further prerelease parts: numeric identifiers with and without leading
\* zeros, an upper-case and a mixed identifier, a hyphen, an empty identifier.
OtherPre == {
    <<<<"1">>>>, <<<<"0", "1">>>>, <<<<"2">>>>, <<<<"1", "1">>>>,
    <<<<"B", "e", "t", "a">>>>, <<<<"1", "a">>>>, <<Alpha \o <<"-", "1">>>>,
    <<Alpha, <<>>>>, <<Alpha, <<"0", "1">>>>, <<<<"-">>>> }

Malformed == {
    <<>>,
    <<"1", ".", "2">>,
    <<"1", ".", "2", ".", "3", ".", "4">>,
    <<"a", "b", "c">>,
    <<"1", ".", "0", ".", "0", "-">>,
    <<"1", ".", "0", ".", "0", "+">>,
    <<"1", ".", "0", ".", "0", "-", "a", "+", "b", "+", "c">>,
    <<"^", "1", ".", "0", ".", "0">>,
    <<"1", ".", ".", "0">>,
    <<"1", ".", "0", ".", "0", "-", "a", " ", "b">>,
    <<"1", ".", "0", ".", "0", "v">> }

VersionInputs ==
    Range(Chain)
    \cup {MkVersion(<<>>, 1, 0, 0, ids, <<>>) : ids \in OtherPre}
    \cup {MkVersion(<<>>, c[1], c[2], c[3], ids, <<>>) :
            c \in {<<1, 0, 1>>, <<1, 1, 0>>, <<2, 0, 0>>, <<10, 0, 0>>},
            ids \in {<<>>, <<Alpha>>}}
    \cup {MkVersion(<<"v">>, 1, 0, 0, <<>>, <<>>),
          MkVersion(<<"=">>, 1, 0, 0, <<Alpha>>, <<>>),
          MkVersion(<<"v", "=">>, 1, 0, 1, <<>>, <<>>),
          MkVersion(<<>>, 1, 0, 0, <<>>, <<"b">>),
          MkVersion(<<>>, 1, 0, 0, <<Alpha>>, <<"b", ".", "1">>),
          MkVersion(<<>>, 1, 0, 1, <<>>, <<"1">>),
          MkVersion(<<>>, 1, 0, 0, <<Beta, <<"2">>>>, <<"x", "-", "y">>),
          <<"0", "1", ".", "0", ".", "0">>,
          <<"1", ".", "0", ".", "0", "0", "-">> \o Alpha}
    \cup Malformed

\* The positions of the inputs under comparison.
Idx == DOMAIN ver

\* isVersionHigher applied to every ordered pair of the inputs.
IsVersionHigherCall ==
    /\ verOut.higher = <<>>
    /\ verOut' = [verOut EXCEPT !.higher =
                    [i \in Idx |-> [j \in Idx |-> isVersionHigher(ver[i], ver[j])]]]
    /\ UNCHANGED ver
    /\ UNCHANGED <<schedVars, pkgVars>>

\* bumpType applied to every ordered pair of the inputs.
BumpTypeCall ==
    /\ verOut.bump = <<>>
    /\ verOut' = [verOut EXCEPT !.bump =
                    [i \in Idx |-> [j \in Idx |-> bumpType(ver[i], ver[j])]]]
    /\ UNCHANGED ver
    /\ UNCHANGED <<schedVars, pkgVars>>

\* parseSemver applied to each of the inputs.
ParseSemverCall ==
    /\ verOut.parsed = <<>>
    /\ verOut' = [verOut EXCEPT !.parsed = [i \in Idx |-> parseSemver(ver[i])]]
    /\ UNCHANGED ver
    /\ UNCHANGED <<schedVars, pkgVars>>

\* No fetchWithConcurrency call is running.
SchedIdle ==
    /\ items = <<>>
    /\ concurrency = 1
    /\ fallbackValue = "fb"
    /\ pc = "done"
    /\ results = EmptyRecord
    /\ inFlight = 0
    /\ index = 0
    /\ ops = <<>>
    /\ resolveCalls = 0
    /\ returned = EmptyRecord
    /\ fetcherCalls = <<>>
    /\ progressCalls = 0
    /\ writeCount = <<>>

\* Two version strings, compared and classified in both directions.
InitVersion ==
    /\ ver \in VersionInputs \X VersionInputs
    /\ verOut = NoVerOut
    /\ SchedIdle
    /\ PkgIdle

NextVersion ==
    \/ IsVersionHigherCall
    \/ BumpTypeCall
    \/ ParseSemverCall

SpecVersion == InitVersion /\ [][NextVersion]_vars

\* Three version strings, compared pairwise (for the laws of the order).
OrderInputs ==
    Range(Chain)
    \cup {MkVersion(<<>>, 1, 0, 0, ids, <<>>) : ids \in OtherPre}
    \cup {MkVersion(<<>>, 1, 0, 1, <<>>, <<>>),
          MkVersion(<<>>, 2, 0, 0, <<Alpha>>, <<>>),
          MkVersion(<<>>, 10, 0, 0, <<>>, <<>>),
          MkVersion(<<"v">>, 1, 0, 0, <<>>, <<>>),
          MkVersion(<<>>, 1, 0, 0, <<Alpha>>, <<"b", ".", "1">>),
          <<"0", "1", ".", "0", ".", "0">>,
          <<"1", ".", "2">>}

InitOrder ==
    /\ ver \in OrderInputs \X OrderInputs \X OrderInputs
    /\ verOut = NoVerOut
    /\ SchedIdle
    /\ PkgIdle

NextOrder == IsVersionHigherCall

SpecOrder == InitOrder /\ [][NextOrder]_vars

(***************************************************************************)
(* The skip rules: parseSkipEntry and shouldSkipPackage (src/lib/utils.ts) *)
(***************************************************************************)
MaxEntries == 2

\* entry.indexOf(ch, from) and entry.lastIndexOf(ch) as 1-based positions,
\* 0 standing for the -1 of the code.
RECURSIVE IndexOfFrom(_, _, _)
IndexOfFrom(entry, ch, from) ==
    IF from > Len(entry) THEN 0
    ELSE IF entry[from] = ch THEN from
    ELSE IndexOfFrom(entry, ch, from + 1)

RECURSIVE LastIndexOfFrom(_, _, _)
LastIndexOfFrom(entry, ch, from) ==
    IF from < 1 THEN 0
    ELSE IF entry[from] = ch THEN from
    ELSE LastIndexOfFrom(entry, ch, from - 1)

LastIndexOf(entry, ch) == LastIndexOfFrom(entry, ch, Len(entry))

\* entry.startsWith('@')
StartsWithAt(entry) == Len(entry) > 0 /\ entry[1] = "@"

\* parseSkipEntry(entry): [package |-> ...] or [package |-> ..., version |-> ...].
parseSkipEntryAtLastAt(entry) ==
    LET atIndex == LastIndexOf(entry, "@")
    IN IF atIndex = 0 THEN [package |-> entry]
       ELSE [package |-> SubSeq(entry, 1, atIndex - 1),
             version |-> SubSeq(entry, atIndex + 1, Len(entry))]

parseSkipEntry(entry) ==
    LET atIndex == IF StartsWithAt(entry) THEN IndexOfFrom(entry, "@", 2)
                   ELSE LastIndexOf(entry, "@")
    IN IF atIndex = 0 THEN [package |-> entry]
       ELSE [package |-> SubSeq(entry, 1, atIndex - 1),
             version |-> SubSeq(entry, atIndex + 1, Len(entry))]

\* !skipVersion / !version: the version is undefined or the empty string.
NoVersion(parsed) == "version" \notin DOMAIN parsed \/ parsed.version = <<>>

\* The for loop of shouldSkipPackage from entry i.
RECURSIVE ShouldSkipFromIgnoringWanted(_, _, _, _, _, _)
ShouldSkipFromIgnoringWanted(packageName, currentVersion, wantedVersion, latestVersion, skipEntries, i) ==
    IF i > Len(skipEntries) THEN FALSE
    ELSE LET parsed == parseSkipEntry(skipEntries[i])
         IN IF parsed.package # packageName
            THEN ShouldSkipFromIgnoringWanted(packageName, currentVersion, wantedVersion,
                                              latestVersion, skipEntries, i + 1)
            ELSE IF NoVersion(parsed) THEN TRUE
            ELSE IF parsed.version = latestVersion THEN TRUE
            ELSE ShouldSkipFromIgnoringWanted(packageName, currentVersion, wantedVersion,
                                              latestVersion, skipEntries, i + 1)

RECURSIVE ShouldSkipFrom(_, _, _, _, _, _)
ShouldSkipFrom(packageName, currentVersion, wantedVersion, latestVersion, skipEntries, i) ==
    IF i > Len(skipEntries) THEN FALSE
    ELSE LET parsed == parseSkipEntry(skipEntries[i])
         IN IF parsed.package # packageName
            THEN ShouldSkipFrom(packageName, currentVersion, wantedVersion,
                                latestVersion, skipEntries, i + 1)
            ELSE IF NoVersion(parsed) THEN TRUE
            ELSE IF parsed.version = latestVersion /\ wantedVersion = currentVersion
            THEN TRUE
            ELSE ShouldSkipFrom(packageName, currentVersion, wantedVersion,
                                latestVersion, skipEntries, i + 1)

shouldSkipPackage(packageName, currentVersion, wantedVersion, latestVersion, skipEntries) ==
    ShouldSkipFrom(packageName, currentVersion, wantedVersion, latestVersion,
                   skipEntries, 1)

\* ---- inputs
\* Package names: a, b and the scoped @s/a.
NameA == <<"a">>
NameB == <<"b">>
NameScoped == <<"@", "s", "/", "a">>

V100 == MkVersion(<<>>, 1, 0, 0, <<>>, <<>>)
V110 == MkVersion(<<>>, 1, 1, 0, <<>>, <<>>)
V200 == MkVersion(<<>>, 2, 0, 0, <<>>, <<>>)
V210 == MkVersion(<<>>, 2, 1, 0, <<>>, <<>>)

\* package@version as written in the skip list.
Entry(name, version) == name \o <<"@">> \o version

\* Skip-list tokens: bare and versioned, scoped and unscoped, with an empty
\* version (a@), with a further '@' in the version part, with an empty name.
EntryInputs == {
    NameA, NameScoped,
    Entry(NameA, V110), Entry(NameA, V200), Entry(NameScoped, V200),
    Entry(NameB, V200), Entry(NameA, <<>>),
    Entry(Entry(NameA, V110), V200), Entry(Entry(NameScoped, V110), V200),
    Entry(<<>>, V200) }

\* current, wanted, latest as the outdated detector reports them.
Info(current, wanted, latest) ==
    [current |-> current, wanted |-> wanted, latest |-> latest]

InfoInputs == {
    Info(V100, V100, V200), Info(V100, V110, V200), Info(V110, V110, V200),
    Info(V100, V200, V200), Info(V100, V100, V110), Info(V100, V100, V210) }

SkipArgInputs ==
    {[packageName |-> n, currentVersion |-> i.current, wantedVersion |-> i.wanted,
      latestVersion |-> i.latest] : n \in {NameA, NameScoped}, i \in InfoInputs}

\* parseSkipEntry applied to every entry of the skip list.
ParseSkipEntryCall ==
    /\ skipOut.parsed = <<>>
    /\ skipOut' = [skipOut EXCEPT !.parsed =
                     <<[k \in DOMAIN skipPackages |-> parseSkipEntry(skipPackages[k])]>>]
    /\ UNCHANGED <<skipPackages, skipArgs>>
    /\ UNCHANGED <<schedVars, verVars, cleanupVars, rowsVars, sortVars>>

\* shouldSkipPackage applied to the arguments and the skip list.
ShouldSkipPackageCall ==
    /\ skipOut.should = <<>>
    /\ skipOut' = [skipOut EXCEPT !.should =
                     <<shouldSkipPackage(skipArgs.packageName, skipArgs.currentVersion,
                                         skipArgs.wantedVersion, skipArgs.latestVersion,
                                         skipPackages)>>]
    /\ UNCHANGED <<skipPackages, skipArgs>>
    /\ UNCHANGED <<schedVars, verVars, cleanupVars, rowsVars, sortVars>>

InitSkip ==
    /\ skipPackages \in SeqsUpTo(EntryInputs, MaxEntries)
    /\ skipArgs \in SkipArgInputs
    /\ skipOut = NoSkipOut
    /\ SchedIdle
    /\ VerIdle
    /\ CleanupIdle
    /\ RowsIdle
    /\ SortIdle

NextSkip ==
    \/ ParseSkipEntryCall
    \/ ShouldSkipPackageCall

SpecSkip == InitSkip /\ [][NextSkip]_vars

(***************************************************************************)
(* cleanupAndSaveSkipFile (src/args.ts)                                    *)
(***************************************************************************)
\* outdated[pkg]: the entry of the package, or Null (undefined).
OutdatedGet(outd, pkg) ==
    IF \E k \in DOMAIN outd : outd[k].name = pkg
    THEN outd[CHOOSE k \in DOMAIN outd : outd[k].name = pkg]
    ELSE Null

\* The callback of skipConfig.packages.filter: whether to keep the entry.
KeepEntryIgnoringWanted(outd, entry) ==
    LET parsed == parseSkipEntry(entry)
        outdatedInfo == OutdatedGet(outd, parsed.package)
    IN IF outdatedInfo = Null THEN FALSE
       ELSE IF NoVersion(parsed) THEN TRUE
       ELSE ~(\/ outdatedInfo.current = parsed.version
              \/ isVersionHigher(outdatedInfo.current, parsed.version))

KeepEntryVersionFirst(outd, entry) ==
    LET parsed == parseSkipEntry(entry)
        outdatedInfo == OutdatedGet(outd, parsed.package)
    IN IF outdatedInfo = Null THEN FALSE
       ELSE IF NoVersion(parsed) THEN TRUE
       ELSE ~(\/ outdatedInfo.current = parsed.version
              \/ isVersionHigher(parsed.version, outdatedInfo.current))
            /\ ~(\/ outdatedInfo.wanted = parsed.version
                 \/ isVersionHigher(parsed.version, outdatedInfo.wanted))

KeepEntry(outd, entry) ==
    LET parsed == parseSkipEntry(entry)
        outdatedInfo == OutdatedGet(outd, parsed.package)
    IN IF outdatedInfo = Null THEN FALSE
       ELSE IF NoVersion(parsed) THEN TRUE
       ELSE LET version == parsed.version
                currentIsSkipVersionOrHigher ==
                    \/ outdatedInfo.current = version
                    \/ isVersionHigher(outdatedInfo.current, version)
                wantedIsSkipVersionOrHigher ==
                    \/ outdatedInfo.wanted = version
                    \/ isVersionHigher(outdatedInfo.wanted, version)
            IN ~currentIsSkipVersionOrHigher /\ ~wantedIsSkipVersionOrHigher

\* Array.prototype.filter over the entries from position i.
RECURSIVE FilterFrom(_, _, _)
FilterFrom(outd, packages, i) ==
    IF i > Len(packages) THEN <<>>
    ELSE (IF KeepEntry(outd, packages[i]) THEN <<packages[i]>> ELSE <<>>)
         \o FilterFrom(outd, packages, i + 1)

\* The content of the skip file and the number of writeFileSync calls on it.
FileOf(content, writes) == [content |-> content, writes |-> writes]

\* if (cleanedPackages.length !== skipConfig.packages.length)
PackagesRemovedOrNot(cleaned, packages) == TRUE

PackagesRemoved(cleaned, packages) == Len(cleaned) # Len(packages)

\* cleanupAndSaveSkipFile(skipConfig, skipFilePath, outdated). writeFileSync
\* either succeeds or throws, and the error is ignored.
CleanupAndSaveSkipFile ==
    /\ cleanupPc = "start"
    /\ cleanupPc' = "done"
    /\ IF skipConfig = Null \/ skipFilePath = Null
       THEN UNCHANGED <<cleanedPackages, skipFile>>
       ELSE IF skipConfig.autoCleanup = "false"
       THEN UNCHANGED <<cleanedPackages, skipFile>>
       ELSE LET cleaned == FilterFrom(outdated, skipConfig.packages, 1)
            IN /\ cleanedPackages' = <<cleaned>>
               /\ IF PackagesRemoved(cleaned, skipConfig.packages)
                  THEN \E written \in BOOLEAN :
                         skipFile' = FileOf(IF written
                                            THEN [skipConfig EXCEPT !.packages = cleaned]
                                            ELSE skipFile.content,
                                            skipFile.writes + 1)
                  ELSE UNCHANGED skipFile
    /\ UNCHANGED <<skipConfig, skipFilePath, outdated>>
    /\ UNCHANGED <<schedVars, verVars, skipVars, metas, now, rowsOut, ageOut, sortVars>>

\* ---- inputs
\* Outdated maps over the packages a and @s/a, in either key order.
PkgInputs ==
    {[name |-> n, current |-> i.current, wanted |-> i.wanted, latest |-> i.latest] :
        n \in {NameA, NameScoped}, i \in InfoInputs}

OutdatedInputs ==
    {<<>>} \cup {<<p>> : p \in PkgInputs}
    \cup {<<p, q>> : p \in {x \in PkgInputs : x.name = NameA},
                     q \in {x \in PkgInputs : x.name = NameScoped}}
    \cup {<<q, p>> : p \in {x \in PkgInputs : x.name = NameA},
                     q \in {x \in PkgInputs : x.name = NameScoped}}

\* Entries of a skip file: as EntryInputs, with a version that is no SemVer
\* version (a@x).
CleanupEntryInputs == {
    NameA, Entry(NameA, V110), Entry(NameA, V200), Entry(NameScoped, V200),
    Entry(NameB, V200), Entry(NameA, <<>>), Entry(NameA, <<"x">>) }

\* skipConfig.autoCleanup: true, false or absent.
AutoCleanupInputs == {"true", "false", "undefined"}

SkipConfigInputs ==
    {Null} \cup {[packages |-> ps, autoCleanup |-> ac] :
                    ps \in SeqsUpTo(CleanupEntryInputs, MaxEntries),
                    ac \in AutoCleanupInputs}

SkipFilePathInputs == {Null, <<".outdated-plus-skip">>}

\* The skip configuration was loaded from the file, if there is one.
InitCleanup ==
    /\ skipConfig \in SkipConfigInputs
    /\ skipFilePath \in SkipFilePathInputs
    /\ outdated \in OutdatedInputs
    /\ cleanupPc = "start"
    /\ cleanedPackages = Null
    /\ skipFile = FileOf(skipConfig, 0)
    /\ metas = <<>>
    /\ now = 0
    /\ rowsOut = <<>>
    /\ ageOut = <<>>
    /\ SchedIdle
    /\ VerIdle
    /\ SkipIdle
    /\ SortIdle

NextCleanup == CleanupAndSaveSkipFile

SpecCleanup == InitCleanup /\ [][NextCleanup]_vars

(***************************************************************************)
(* parseIsoZ, daysAgo, fmtTime (src/lib/utils.ts) and buildRows            *)
(*                                                                         *)
(* Time is counted in hours since 1970-01-01T00:00Z and every timestamp of *)
(* the inputs is a whole hour, so that floor(delta / 86400000 ms) is       *)
(* delta \div DayLength. A number | null is Null or the 1-tuple <<n>>; a   *)
(* date string is the pair <<date and time, zone designator>>.             *)
(***************************************************************************)
\* 86400000 ms, in hours.
DayLength == 24

\* Number.POSITIVE_INFINITY: above every age of the model.
Infinity == 2147483647

Num(n) == <<n>>

EmptyDateString == <<"", "">>

\* Date.parse(x) of the date strings of the inputs; NaN for any other string.
DateParse(x) ==
    LET known == x[2] \in {"+00:00", ""} /\ x[1] \in
                   {"2023-11-01T10:00:00", "2023-11-15T10:00:00", "2023-11-20T10:00:00",
                    "2023-11-30T12:00:00", "2023-11-30T13:00:00", "2023-12-02T12:00:00"}
    IN [finite |-> known,
        value |-> CASE x[1] = "2023-11-01T10:00:00" -> 471898
                    [] x[1] = "2023-11-15T10:00:00" -> 472234
                    [] x[1] = "2023-11-20T10:00:00" -> 472354
                    [] x[1] = "2023-11-30T12:00:00" -> 472596
                    [] x[1] = "2023-11-30T13:00:00" -> 472597
                    [] x[1] = "2023-12-02T12:00:00" -> 472644
                    [] OTHER -> 0]

\* parseIsoZ(s): the timestamp of a date string, or Null.
parseIsoZ(s) ==
    IF s = Null \/ s = EmptyDateString THEN Null
    ELSE LET x == IF s[2] = "Z" THEN <<s[1], "+00:00">> ELSE s
             t == DateParse(x)
         IN IF t.finite THEN Num(t.value) ELSE Null

\* daysAgo(ms), Date.now() being clock.
daysAgoUnclamped(ms, clock) ==
    IF ms = Null THEN Null
    ELSE Num((clock - ms[1]) \div DayLength)

daysAgo(ms, clock) ==
    IF ms = Null THEN Null
    ELSE LET delta == clock - ms[1]
         IN Num(Max(0, delta \div DayLength))

\* fmtTime(ms, iso): '-', or the instant in the ISO or the locale format.
fmtTime(ms, iso) ==
    IF ms = Null THEN <<"-">>
    ELSE <<IF iso THEN "iso" ELSE "locale", ms[1]>>

\* pkg.toLowerCase()
ToLowerCase(str) ==
    [k \in DOMAIN str |->
        IF str[k] \in Uppers THEN LowerSeq[IndexOf(UpperSeq, str[k])] ELSE str[k]]

\* metas[pkg] ?? { latest: '', timeMap: {} }
MetaOf(ms, pkg) ==
    IF pkg \in DOMAIN ms THEN ms[pkg] ELSE [latest |-> <<>>, timeMap |-> <<>>]

\* m.timeMap[version]
TimeOf(m, version) ==
    IF version \in DOMAIN m.timeMap THEN m.timeMap[version] ELSE Null

\* latestFromOut || m.latest || ''
ResolveLatestPreferringMeta(latestFromOut, metaLatest) ==
    IF metaLatest # <<>> THEN metaLatest ELSE latestFromOut

ResolveLatest(latestFromOut, metaLatest) ==
    IF latestFromOut # <<>> THEN latestFromOut ELSE metaLatest

\* [ageWanted, ageLatest].some((a) => a !== null && a >= cutoffDays)
MeetsWhenUnknown(ageWanted, ageLatest, cutoffDays) ==
    \/ ageWanted = Null \/ ageWanted[1] >= cutoffDays
    \/ ageLatest = Null \/ ageLatest[1] >= cutoffDays

MeetsAtMost(ageWanted, ageLatest, cutoffDays) ==
    \/ ageWanted # Null /\ ageWanted[1] <= cutoffDays
    \/ ageLatest # Null /\ ageLatest[1] <= cutoffDays

Meets(ageWanted, ageLatest, cutoffDays) ==
    \/ ageWanted # Null /\ ageWanted[1] >= cutoffDays
    \/ ageLatest # Null /\ ageLatest[1] >= cutoffDays

\* The skip test at the head of the loop body.
SkipsRowNever(info, skipList) == FALSE

SkipsRow(info, skipList) ==
    shouldSkipPackage(info.name, info.current, info.wanted, info.latest, skipList)

\* ageWanted === null ? '-' : String(ageWanted)
AgeText(age) == IF age = Null THEN <<"-">> ELSE NumStr(age[1])

\* The loop body of buildRows for one entry of outdated: the rows it pushes.
RowsOf(info, ms, showAll, cutoffDays, useIso, skipList, clock) ==
    IF SkipsRow(info, skipList) THEN <<>>
    ELSE LET pkg == info.name
             current == info.current
             wanted == info.wanted
             latestFromOut == info.latest
             m == MetaOf(ms, pkg)
             latest == ResolveLatest(latestFromOut, m.latest)
             dtWanted == parseIsoZ(TimeOf(m, wanted))
             dtLatest == parseIsoZ(TimeOf(m, latest))
             ageWanted == daysAgo(dtWanted, clock)
             ageLatest == daysAgo(dtLatest, clock)
         IN IF current = wanted /\ current = latest /\ current # <<>> THEN <<>>
            ELSE IF ~showAll /\ ~Meets(ageWanted, ageLatest, cutoffDays) THEN <<>>
            ELSE << [Package |-> pkg,
                     Current |-> current,
                     Wanted |-> wanted,
                     ToWanted |-> IF wanted # <<>> THEN bumpType(current, wanted)
                                  ELSE "unknown",
                     Latest |-> latest,
                     ToLatest |-> IF latest # <<>> THEN bumpType(current, latest)
                                  ELSE "unknown",
                     PublishedWanted |-> fmtTime(dtWanted, useIso),
                     AgeWanted |-> AgeText(ageWanted),
                     PublishedLatest |-> fmtTime(dtLatest, useIso),
                     AgeLatest |-> AgeText(ageLatest),
                     _name |-> ToLowerCase(pkg),
                     _published_wanted |-> IF dtWanted = Null THEN 0 ELSE dtWanted[1],
                     _published_latest |-> IF dtLatest = Null THEN 0 ELSE dtLatest[1],
                     _age_wanted |-> IF ageWanted = Null THEN Infinity ELSE ageWanted[1],
                     _age_latest |-> IF ageLatest = Null THEN Infinity ELSE ageLatest[1],
                     _latest |-> latest] >>

\* The for loop of buildRows over Object.entries(outdated) from entry i.
RECURSIVE BuildRowsFrom(_, _, _, _, _, _, _, _)
BuildRowsFrom(outd, ms, showAll, cutoffDays, useIso, skipList, clock, i) ==
    IF i > Len(outd) THEN <<>>
    ELSE RowsOf(outd[i], ms, showAll, cutoffDays, useIso, skipList, clock)
         \o BuildRowsFrom(outd, ms, showAll, cutoffDays, useIso, skipList, clock, i + 1)

buildRows(outd, ms, showAll, cutoffDays, useIso, skipList, clock) ==
    BuildRowsFrom(outd, ms, showAll, cutoffDays, useIso, skipList, clock, 1)

\* ---- inputs
\* vi.setSystemTime(new Date('2023-12-01T12:00:00Z'))
ClockInput == 472620

NameUpper == <<"B">>

DateZ(body) == <<body, "Z">>

\* time maps: the one of the tests (ages 30 and 16 days), one without the
\* wanted version (ages 16 and 11), one of the last day and of the future
\* (ages 0), one whose strings are no dates, and the empty one.
TimeMapInputs == {
    (V110 :> DateZ("2023-11-01T10:00:00") @@ V200 :> DateZ("2023-11-15T10:00:00")),
    (V200 :> DateZ("2023-11-15T10:00:00") @@ V210 :> DateZ("2023-11-20T10:00:00")),
    (V110 :> DateZ("2023-12-02T12:00:00") @@ V200 :> DateZ("2023-11-30T13:00:00")),
    (V110 :> <<"invalid-date", "">> @@ V200 :> EmptyDateString),
    <<>> }

MetaInputs == {[latest |-> l, timeMap |-> tm] : l \in {<<>>, V210}, tm \in TimeMapInputs}

\* current, wanted, latest of a row: as reported for the packages of the
\* tests, without a latest, and with all three identical.
RowInfoInputs == {
    Info(V100, V110, V200), Info(V100, V100, V200), Info(V100, V110, <<>>),
    Info(V100, V100, V100) }

RowPkgInputs(n) ==
    {[name |-> n, current |-> i.current, wanted |-> i.wanted, latest |-> i.latest] :
        i \in RowInfoInputs}

\* Outdated maps over the packages a and B, in either key order.
RowOutdatedInputs ==
    {<<p>> : p \in RowPkgInputs(NameA)}
    \cup {<<p, q>> : p \in RowPkgInputs(NameA), q \in RowPkgInputs(NameUpper)}
    \cup {<<q, p>> : p \in RowPkgInputs(NameA), q \in RowPkgInputs(NameUpper)}

\* The metadata of the second package: as fetched for the tests, or the
\* fallback of a failed fetch.
MetaInputsUpper == {
    [latest |-> V210,
     timeMap |-> (V200 :> DateZ("2023-11-15T10:00:00") @@ V210 :> DateZ("2023-11-20T10:00:00"))],
    [latest |-> <<>>, timeMap |-> <<>>] }

\* Metadata for all, some or none of the packages.
MetasInputs ==
    {[n \in names |-> IF n = NameA THEN a ELSE b] :
        names \in SUBSET {NameA, NameUpper}, a \in MetaInputs, b \in MetaInputsUpper}

RowSkipInputs == {<<>>, <<NameA>>, <<Entry(NameA, V200)>>, <<Entry(NameUpper, V200)>>}

CutoffInputs == {0, 16, 20, 50}

\* The calls of buildRows on the inputs: showAll, cutoffDays, useIso.
RowCalls == (BOOLEAN \X CutoffInputs \X {FALSE}) \cup {<<TRUE, 0, TRUE>>}

\* Timestamps around the clock: none, now, an hour to 25 hours ago, the
\* wanted version of the tests, the future.
StampInputs(clock) ==
    <<Null, Num(clock), Num(clock - 1), Num(clock - 23), Num(clock - 24), Num(clock - 25),
      Num(clock - 48), Num(clock - 722), Num(clock + 1), Num(clock + 24), Num(clock + 25)>>

\* buildRows applied to the inputs with every showAll, cutoffDays and useIso.
BuildRowsCall ==
    /\ rowsOut = <<>>
    /\ rowsOut' = [c \in RowCalls |->
                     buildRows(outdated, metas, c[1], c[2], c[3], skipPackages, now)]
    /\ UNCHANGED <<outdated, metas, now, ageOut, skipPackages>>
    /\ UNCHANGED <<schedVars, verVars, skipArgs, skipOut, cleanupVars, sortVars>>

\* daysAgo applied to each of the timestamps.
DaysAgoCall ==
    /\ ageOut = <<>>
    /\ ageOut' = [k \in DOMAIN StampInputs(now) |->
                    [ms |-> StampInputs(now)[k], age |-> daysAgo(StampInputs(now)[k], now)]]
    /\ UNCHANGED <<outdated, metas, now, rowsOut, skipPackages>>
    /\ UNCHANGED <<schedVars, verVars, skipArgs, skipOut, cleanupVars, sortVars>>

InitRows ==
    /\ outdated \in RowOutdatedInputs
    /\ metas \in {ms \in MetasInputs :
                    DOMAIN ms \subseteq {outdated[k].name : k \in DOMAIN outdated}}
    /\ now = ClockInput
    /\ skipPackages \in RowSkipInputs
    /\ rowsOut = <<>>
    /\ ageOut = <<>>
    /\ skipArgs = <<>>
    /\ skipOut = NoSkipOut
    /\ SchedIdle
    /\ VerIdle
    /\ CleanupIdle
    /\ SortIdle

NextRows ==
    \/ BuildRowsCall
    \/ DaysAgoCall

SpecRows == InitRows /\ [][NextRows]_vars

(***************************************************************************)
(* sortRows                                                                *)
(***************************************************************************)
MaxRows == 3

\* const rev = order === 'desc' ? -1 : 1
revAscending(ord) == 1

rev(ord) == IF ord = "desc" THEN 0 - 1 ELSE 1

\* The value key(r) returns, with its type: a number or a string.
NumKey(v) == [numeric |-> TRUE, value |-> v]
StrKey(v) == [numeric |-> FALSE, value |-> v]

\* const key = (r) => { switch (sortBy) ... default: return r._published_latest }
key(r, by) ==
    CASE by = "age_latest" -> NumKey(r._age_latest)
      [] by = "age_wanted" -> NumKey(r._age_wanted)
      [] by = "published_latest" -> NumKey(r._published_latest)
      [] by = "published_wanted" -> NumKey(r._published_wanted)
      [] by = "name" -> StrKey(r._name)
      [] by = "current" -> StrKey(r.Current)
      [] by = "wanted" -> StrKey(r.Wanted)
      [] by = "latest" -> StrKey(r._latest)
      [] OTHER -> NumKey(r._published_latest)

\* a < b on two numbers or on two strings (by UTF-16 code units).
LessThan(a, b) ==
    IF a.numeric THEN a.value < b.value ELSE StrLess(a.value, b.value)

\* const cmp = (a, b) => (a < b ? -1 : a > b ? 1 : 0) * rev
cmp(a, b, ord) ==
    (IF LessThan(a, b) THEN 0 - 1 ELSE IF LessThan(b, a) THEN 1 ELSE 0) * rev(ord)

\* Array.prototype.sort with the comparator of sortRows: a stable sort, here
\* by insertion of r behind every element that does not compare greater.
RECURSIVE InsertRow(_, _, _, _)
InsertRow(s, r, by, ord) ==
    IF s = <<>> THEN <<r>>
    ELSE IF cmp(key(Head(s), by), key(r, by), ord) > 0 THEN <<r>> \o s
    ELSE <<Head(s)>> \o InsertRow(Tail(s), r, by, ord)

RECURSIVE SortFrom(_, _, _, _)
SortFrom(arr, n, by, ord) ==
    IF n = 0 THEN <<>>
    ELSE InsertRow(SortFrom(arr, n - 1, by, ord), arr[n], by, ord)

\* return [...rows].sort((a, b) => cmp(key(a), key(b)))
sortRows(arr, by, ord) == SortFrom(arr, Len(arr), by, ord)

\* The array passed in after the call: [...rows] is a new array, and sort
\* works on that one.
ArgumentAfterSortInPlace(arr, by, ord) == sortRows(arr, by, ord)

ArgumentAfterSort(arr, by, ord) == arr

\* ---- inputs
NameC == <<"c">>
V190 == MkVersion(<<>>, 1, 9, 0, <<>>, <<>>)
V1100 == MkVersion(<<>>, 1, 10, 0, <<>>, <<>>)

\* The row buildRows makes of one entry of the outdated map and its metadata.
RowInput(name, current, wanted, latest, meta) ==
    RowsOf([name |-> name, current |-> current, wanted |-> wanted, latest |-> latest],
           (name :> meta), TRUE, 0, FALSE, <<>>, ClockInput)[1]

\* Rows of the packages a, b, B and c: with known and unknown dates, equal
\* and different versions, 1.9.0 and 1.10.0, and no latest version at all.
SortRowInputs == {
    RowInput(NameA, V100, V110, V200,
             [latest |-> V210,
              timeMap |-> (V110 :> DateZ("2023-11-01T10:00:00")
                           @@ V200 :> DateZ("2023-11-15T10:00:00"))]),
    RowInput(NameA, V100, V100, V200,
             [latest |-> V210,
              timeMap |-> (V200 :> DateZ("2023-11-15T10:00:00")
                           @@ V210 :> DateZ("2023-11-20T10:00:00"))]),
    RowInput(NameUpper, V100, V110, <<>>,
             [latest |-> V210,
              timeMap |-> (V200 :> DateZ("2023-11-15T10:00:00")
                           @@ V210 :> DateZ("2023-11-20T10:00:00"))]),
    RowInput(NameB, V190, V1100, V200,
             [latest |-> V200,
              timeMap |-> (V110 :> DateZ("2023-12-02T12:00:00")
                           @@ V200 :> DateZ("2023-11-30T13:00:00"))]),
    RowInput(NameC, V1100, V1100, <<>>, [latest |-> <<>>, timeMap |-> <<>>]),
    RowInput(NameC, V100, V110, V200,
             [latest |-> V200,
              timeMap |-> (V110 :> DateZ("2023-11-01T10:00:00")
                           @@ V200 :> DateZ("2023-11-15T10:00:00"))]) }

\* buildRows lists a package once.
OnePerPackage(arr) == \A i, j \in DOMAIN arr : arr[i].Package = arr[j].Package => i = j

\* The values of Args['sortBy'] (age and published are not among the cases
\* of the switch) and of Args['order'].
SortByInputs == {"name", "age", "published", "age_latest", "age_wanted",
                 "published_latest", "published_wanted", "current", "wanted", "latest"}
SortOrderInputs == {"asc", "desc"}

\* sortRows(rows, sortBy, order)
SortRowsCall ==
    /\ sorted = Null
    /\ sorted' = <<sortRows(rows, sortBy, order)>>
    /\ rows' = ArgumentAfterSort(rows, sortBy, order)
    /\ UNCHANGED <<sortBy, order>>
    /\ UNCHANGED <<schedVars, verVars, skipVars, cleanupVars, rowsVars>>

InitSort ==
    /\ rows \in {arr \in SeqsUpTo(SortRowInputs, MaxRows) : OnePerPackage(arr)}
    /\ sortBy \in SortByInputs
    /\ order \in SortOrderInputs
    /\ sorted = Null
    /\ SchedIdle
    /\ VerIdle
    /\ SkipIdle
    /\ CleanupIdle
    /\ RowsIdle

NextSort == SortRowsCall

SpecSort == InitSort /\ [][NextSort]_vars

(***************************************************************************)
(* Properties of fetchWithConcurrency                                      *)
(***************************************************************************)
\* Positions whose fetcher call was started and whose promise has not settled.
Unsettled == {i \in DOMAIN ops : ops[i].stage = "pending"}

\* Positions launched whose finally-callback has not run yet.
Unfinished == {i \in DOMAIN ops : ops[i].stage \notin {"idle", "done"}}

Finished == {i \in DOMAIN ops : ops[i].stage = "done"}

\* What the callbacks of position i record for its item.
Recorded(i) == IF ops[i].outcome = "ok" THEN ops[i].value ELSE fallbackValue

Distinct(s) == \A i, j \in DOMAIN s : s[i] = s[j] => i = j

\* C1: the number of fetcher calls started and not yet settled never exceeds
\* max(1, concurrency), and neither does the number of operations whose
\* completion has not been processed (the inFlight counter); with a
\* concurrency of 0 or less the call runs with exactly one operation at a time.
C1_InFlightBounded ==
    LET bound == IF concurrency >= 1 THEN concurrency ELSE 1
    IN /\ Cardinality(Unsettled) <= bound
       /\ Cardinality(Unfinished) = inFlight
       /\ inFlight <= bound
       /\ (concurrency < 1 /\ pc = "awaiting" /\ resolveCalls = 0) => inFlight = 1

\* C1 witness: concurrency 2, both slots hold an unsettled fetcher call while
\* another item is still waiting to be launched.
C1_Witness ==
    /\ concurrency = 2
    /\ Cardinality(Unsettled) = 2
    /\ index < Len(items)

C3_ProgressOncePerItem ==
    /\ progressCalls = Cardinality(Finished)
    /\ pc = "done" => progressCalls = Len(items)
    /\ (pc # "start" /\ Len(items) = 0) =>
          /\ pc = "done"
          /\ returned = EmptyRecord
          /\ progressCalls = 0
          /\ fetcherCalls = <<>>

\* C3 witness: a resolved call over three items, one failed and one
\* succeeded, with three onProgress calls.
C3_Witness ==
    /\ pc = "done"
    /\ Len(items) = 3
    /\ progressCalls = 3
    /\ \E i, j \in DOMAIN ops : ops[i].outcome = "fail" /\ ops[j].outcome = "ok"

\* C4: once resolve() was called, and so when the call has resolved, every
\* item has been launched, nothing is in flight, every fetcher promise has
\* settled and the mapping has an entry for every item.
C4_ResolvesAfterAllSettled ==
    (resolveCalls > 0 \/ (pc = "done" /\ Len(items) > 0)) =>
        /\ index = Len(items)
        /\ fetcherCalls = items
        /\ inFlight = 0
        /\ Unsettled = {}
        /\ Unfinished = {}
        /\ DOMAIN results = Range(items)
        /\ pc = "done" => DOMAIN returned = Range(items)

\* C4 witness: a resolved call over three items run two at a time.
C4_Witness ==
    /\ pc = "done"
    /\ Len(items) = 3
    /\ concurrency = 2
    /\ DOMAIN returned = Range(items)

\* C5: with concurrency 1, a position is launched only after the completion
\* of the position before it was processed, so at most one operation is
\* unfinished, and the onProgress calls so far are those of the first
\* progressCalls positions, in submission order.
C5_SequentialOrder ==
    concurrency = 1 =>
        /\ \A i \in DOMAIN ops :
              (i > 1 /\ ops[i].stage # "idle") => ops[i - 1].stage = "done"
        /\ Cardinality(Unfinished) <= 1
        /\ Finished = 1 .. progressCalls

\* C5 witness: concurrency 1, the second of three items is running after the
\* first has completed, the third not yet started.
C5_Witness ==
    /\ concurrency = 1
    /\ Len(items) = 3
    /\ ops[1].stage = "done"
    /\ ops[2].stage = "pending"
    /\ ops[3].stage = "idle"

(***************************************************************************)
(* Properties of the version comparator                                    *)
(***************************************************************************)
Parses(v) == parseSemver(v) # Null

\* The documented precedence rules, stated on parsed tuples position by
\* position (not by the loops of the code).
AsciiHigher(x, y) ==
    \E k \in 1 .. Len(x) :
        /\ \A m \in 1 .. k - 1 : m <= Len(y) /\ x[m] = y[m]
        /\ k > Len(y) \/ Code(x[k]) > Code(y[k])

AllDigits(id) == Len(id) > 0 /\ Range(id) \subseteq Digits

IdSame(x, y) ==
    \/ AllDigits(x) /\ AllDigits(y) /\ DigitsToNat(x) = DigitsToNat(y)
    \/ ~AllDigits(x) /\ ~AllDigits(y) /\ x = y

IdHigher(x, y) ==
    \/ AllDigits(x) /\ AllDigits(y) /\ DigitsToNat(x) > DigitsToNat(y)
    \/ ~AllDigits(x) /\ AllDigits(y)
    \/ ~AllDigits(x) /\ ~AllDigits(y) /\ AsciiHigher(x, y)

PreHigher(p, q) ==
    \/ Len(p) = 0 /\ Len(q) > 0
    \/ /\ Len(p) > 0
       /\ Len(q) > 0
       /\ \E k \in 1 .. Len(p) :
             /\ \A m \in 1 .. k - 1 : m <= Len(q) /\ IdSame(p[m], q[m])
             /\ k > Len(q) \/ IdHigher(p[k], q[k])

PrecedenceHigher(a, b) ==
    \/ a[1] > b[1]
    \/ a[1] = b[1] /\ a[2] > b[2]
    \/ a[1] = b[1] /\ a[2] = b[2] /\ a[3] > b[3]
    \/ a[1] = b[1] /\ a[2] = b[2] /\ a[3] = b[3] /\ PreHigher(a[4], b[4])

\* A numeric identifier without its leading zeros; any other identifier as is.
RECURSIVE StripZeros(_)
StripZeros(d) == IF Len(d) > 1 /\ d[1] = "0" THEN StripZeros(Tail(d)) ELSE d

\* A parsed tuple with its numeric prerelease identifiers read as integers.
Canonical(t) ==
    <<t[1], t[2], t[3],
      [k \in DOMAIN t[4] |-> IF AllDigits(t[4][k]) THEN StripZeros(t[4][k]) ELSE t[4][k]]>>

\* The version string up to its build metadata.
StripBuild(v) == SubSeq(v, 1, SpanLen(v, 1, Range(v) \ {"+"}))

HigherOut(i, j) == verOut.higher[i][j]
BumpOut(i, j) == verOut.bump[i][j]
ComparedAll == verOut.higher # <<>>
ClassifiedAll == verOut.bump # <<>>

\* C6: for every pair of versions of the SemVer 2.0.0 chain,
\* isVersionHigher(later, earlier) is true and isVersionHigher(earlier, later)
\* is false.
C6_PrereleaseChain ==
    ComparedAll =>
        \A i, j \in Idx : \A p, q \in DOMAIN Chain :
            (ver[i] = Chain[p] /\ ver[j] = Chain[q] /\ p < q) =>
                HigherOut(j, i) /\ ~HigherOut(i, j)

\* C6 witness: 1.0.0-beta.2 and 1.0.0-beta.11 compared, the second higher.
C6_Witness ==
    /\ ComparedAll
    /\ ver[1] = Chain[5]
    /\ ver[2] = Chain[6]
    /\ HigherOut(2, 1)
    /\ ~HigherOut(1, 2)

\* C7 (as stated): on strings parseSemver accepts isVersionHigher is
\* irreflexive, antisymmetric and transitive, and any two versions whose parsed
\* (major, minor, patch, prerelease identifiers) differ are ordered one way or
\* the other.
C7_StrictTotalOrderOnTuples ==
    ComparedAll =>
        /\ \A i, j \in Idx :
              (Parses(ver[i]) /\ Parses(ver[j])) =>
                  /\ ~HigherOut(i, i)
                  /\ ~(HigherOut(i, j) /\ HigherOut(j, i))
                  /\ parseSemver(ver[i]) # parseSemver(ver[j]) =>
                        (HigherOut(i, j) \/ HigherOut(j, i))
        /\ \A i, j, k \in Idx :
              (HigherOut(i, j) /\ HigherOut(j, k)
                 /\ Parses(ver[i]) /\ Parses(ver[j]) /\ Parses(ver[k])) =>
                  HigherOut(i, k)

\* C7 (amended): on strings parseSemver accepts isVersionHigher is
\* irreflexive, antisymmetric and transitive, and two versions are left
\* unordered exactly when their parsed tuples are equal once numeric
\* prerelease identifiers are read as integers (01 and 1 are the same
\* identifier).
C7_StrictOrderUpToLeadingZeros ==
    ComparedAll =>
        /\ \A i, j \in Idx :
              (Parses(ver[i]) /\ Parses(ver[j])) =>
                  /\ ~HigherOut(i, i)
                  /\ ~(HigherOut(i, j) /\ HigherOut(j, i))
                  /\ (HigherOut(i, j) \/ HigherOut(j, i))
                        <=> Canonical(parseSemver(ver[i])) # Canonical(parseSemver(ver[j]))
        /\ \A i, j, k \in Idx :
              (HigherOut(i, j) /\ HigherOut(j, k)
                 /\ Parses(ver[i]) /\ Parses(ver[j]) /\ Parses(ver[k])) =>
                  HigherOut(i, k)

\* C7 witness: three versions ordered in a row by three different rules
\* (numeric below alphanumeric, prerelease below release), and compared.
C7_Witness ==
    /\ ComparedAll
    /\ Len(ver) = 3
    /\ ver[1] = MkVersion(<<>>, 1, 0, 0, <<<<"1", "1">>>>, <<>>)
    /\ ver[2] = MkVersion(<<>>, 1, 0, 0, <<Alpha, <<"0", "1">>>>, <<>>)
    /\ ver[3] = MkVersion(<<>>, 1, 0, 0, <<>>, <<>>)
    /\ HigherOut(2, 1)
    /\ HigherOut(3, 2)
    /\ HigherOut(3, 1)

\* C8: isVersionHigher(v1, v2) is true exactly when both strings parse and
\* v1 is higher than v2 under the documented precedence rules; it is false
\* when either string fails to parse.
C8_HigherIffPrecedence ==
    ComparedAll =>
        \A i, j \in Idx :
            HigherOut(i, j) <=>
                /\ Parses(ver[i])
                /\ Parses(ver[j])
                /\ PrecedenceHigher(parseSemver(ver[i]), parseSemver(ver[j]))

\* C8 witness: an alphanumeric identifier that starts with a digit compared
\* with a numeric one, and found higher.
C8_Witness ==
    /\ ComparedAll
    /\ ver[1] = MkVersion(<<>>, 1, 0, 0, <<<<"1", "a">>>>, <<>>)
    /\ ver[2] = MkVersion(<<>>, 1, 0, 0, <<<<"1", "1">>>>, <<>>)
    /\ HigherOut(1, 2)
    /\ ~HigherOut(2, 1)

\* C9: bumpType is 'unknown' when either string fails to parse; otherwise
\* 'same' when the numbers and the prerelease sequences are equal,
\* 'prerelease' when only the prerelease sequences differ, and else 'major',
\* 'minor' or 'patch' by the first number that differs; classifying the
\* strings without their build metadata gives the same result.
C9_BumpTypeClassification ==
    ClassifiedAll =>
        \A i, j \in Idx :
            LET a == parseSemver(ver[i])
                b == parseSemver(ver[j])
            IN IF a = Null \/ b = Null THEN BumpOut(i, j) = "unknown"
               ELSE /\ BumpOut(i, j) =
                         (IF a[1] # b[1] THEN "major"
                          ELSE IF a[2] # b[2] THEN "minor"
                          ELSE IF a[3] # b[3] THEN "patch"
                          ELSE IF a[4] # b[4] THEN "prerelease"
                          ELSE "same")
                    /\ BumpOut(i, j) = bumpType(StripBuild(ver[i]), StripBuild(ver[j]))

\* C9 witness: 1.0.0-alpha+b.1 against 1.0.0-alpha.1 is 'prerelease', its
\* build metadata left aside.
C9_Witness ==
    /\ ClassifiedAll
    /\ ver[1] = MkVersion(<<>>, 1, 0, 0, <<Alpha>>, <<"b", ".", "1">>)
    /\ ver[2] = MkVersion(<<>>, 1, 0, 0, <<Alpha, <<"1">>>>, <<>>)
    /\ BumpOut(1, 2) = "prerelease"
    /\ BumpOut(1, 1) = "same"

\* C10: bumpType(x, x) is 'same' for every string x that parseSemver accepts.
C10_BumpTypeReflexive ==
    ClassifiedAll =>
        \A i \in Idx : Parses(ver[i]) => BumpOut(i, i) = "same"

\* C10 witness: a version with a prerelease part classified against itself.
C10_Witness ==
    /\ ClassifiedAll
    /\ ver[1] = MkVersion(<<>>, 1, 0, 0, <<Beta, <<"1", "1">>>>, <<>>)
    /\ BumpOut(1, 1) = "same"

(***************************************************************************)
(* Properties of parseSemver                                               *)
(***************************************************************************)
ParsedOut(i) == verOut.parsed[i]
ParsedAll == verOut.parsed # <<>>

\* The input without its leading v/= markers and without its +build suffix.
Normalized(v) ==
    LET s == StripBuild(v)
    IN SubSeq(s, 1 + SpanLen(s, 1, PrefixChars), Len(s))

\* The dot-separated segments of the input before its prerelease part.
CoreSegments(v) ==
    LET s == Normalized(v)
    IN Split(SubSeq(s, 1, SpanLen(s, 1, Range(s) \ {"-"})), ".")

\* The input has exactly three numeric dot-separated segments.
ThreeNumericSegments(v) ==
    /\ Len(CoreSegments(v)) = 3
    /\ \A k \in 1 .. 3 : AllDigits(CoreSegments(v)[k])

\* major, minor and patch are written without leading zeros.
NoLeadingZeros(v) ==
    \A k \in DOMAIN CoreSegments(v) : StripZeros(CoreSegments(v)[k]) = CoreSegments(v)[k]

\* major.minor.patch, then '-' and the identifiers joined by dots if any.
Rebuilt(t) == MkVersion(<<>>, t[1], t[2], t[3], t[4], <<>>)

ShouldOut == skipOut.should[1]
ShouldDone == skipOut.should # <<>>
ParsedEntry(k) == skipOut.parsed[1][k]
ParsedEntries == skipOut.parsed # <<>>

\* C12: shouldSkipPackage(name, current, wanted, latest, entries) is true
\* exactly when some entry parses to package name and either carries no
\* version (none, or an empty one as in a@) or carries the version latest
\* while wanted equals current. It is false on an empty list, when no entry
\* names the package, and when the only matching entries are versioned ones
\* naming latest while wanted differs from current.
C12_ShouldSkipIff ==
    ShouldDone =>
        (ShouldOut <=>
            \E k \in DOMAIN skipPackages :
                LET parsed == parseSkipEntry(skipPackages[k])
                IN /\ parsed.package = skipArgs.packageName
                   /\ \/ NoVersion(parsed)
                      \/ /\ parsed.version = skipArgs.latestVersion
                         /\ skipArgs.wantedVersion = skipArgs.currentVersion)

\* C12 witness: a@2.0.0 after an entry of another package skips a
\* (1.0.0, 1.0.0, 2.0.0).
C12_Witness ==
    /\ ShouldDone
    /\ skipPackages = <<Entry(NameB, V200), Entry(NameA, V200)>>
    /\ skipArgs.packageName = NameA
    /\ skipArgs.currentVersion = V100
    /\ skipArgs.wantedVersion = V100
    /\ skipArgs.latestVersion = V200
    /\ ShouldOut

\* The positions of '@' in a token.
Ats(e) == {i \in DOMAIN e : e[i] = "@"}

\* A name whose only '@', if any, is its first character.
PlainName(name) == name # <<>> /\ Ats(name) \subseteq {1}

\* C13: parseSkipEntry splits a token at its second '@' when it starts with
\* '@' and at its last '@' otherwise, and returns the whole token as the
\* package, without a version, when there is no such '@'. So a token
\* name@version, where the only '@' of the (non-empty) name is its first
\* character and the version has no '@', yields that name and that version,
\* and a token that is such a name yields the name without a version.
C13_ParseSkipEntrySplits ==
    ParsedEntries =>
        \A k \in DOMAIN skipPackages :
            LET e == skipPackages[k]
                seps == IF StartsWithAt(e) THEN Ats(e) \ {1} ELSE Ats(e)
                sep == IF StartsWithAt(e)
                       THEN CHOOSE i \in seps : \A j \in seps : i <= j
                       ELSE CHOOSE i \in seps : \A j \in seps : i >= j
            IN /\ seps = {} => ParsedEntry(k) = [package |-> e]
               /\ seps # {} =>
                    ParsedEntry(k) = [package |-> SubSeq(e, 1, sep - 1),
                                      version |-> SubSeq(e, sep + 1, Len(e))]
               /\ \A i \in Ats(e) :
                    LET name == SubSeq(e, 1, i - 1)
                        version == SubSeq(e, i + 1, Len(e))
                    IN PlainName(name) /\ Ats(version) = {} =>
                         ParsedEntry(k) = [package |-> name, version |-> version]
               /\ PlainName(e) => ParsedEntry(k) = [package |-> e]

\* C13 witness: @s/a@2.0.0 yields @s/a and 2.0.0, @s/a yields @s/a alone.
C13_Witness ==
    /\ ParsedEntries
    /\ skipPackages = <<Entry(NameScoped, V200), NameScoped>>
    /\ ParsedEntry(1) = [package |-> NameScoped, version |-> V200]
    /\ ParsedEntry(2) = [package |-> NameScoped]

(***************************************************************************)
(* Properties of cleanupAndSaveSkipFile                                    *)
(***************************************************************************)
\* The cleanup ran its filter (it does not when a precondition fails or
\* autoCleanup is false); Cleaned is then the filtered list.
CleanupRan == cleanedPackages # Null
Cleaned == cleanedPackages[1]

\* The package of the entry is (still) in the outdated map.
StillOutdated(entry) ==
    \E k \in DOMAIN outdated : outdated[k].name = parseSkipEntry(entry).package

InfoOf(entry) ==
    outdated[CHOOSE k \in DOMAIN outdated :
                outdated[k].name = parseSkipEntry(entry).package]

\* x has reached or surpassed version v.
Reached(x, v) == x = v \/ isVersionHigher(x, v)

\* The entries the claim keeps.
KeptByRule(entry) ==
    /\ StillOutdated(entry)
    /\ \/ NoVersion(parseSkipEntry(entry))
       \/ /\ ~Reached(InfoOf(entry).current, parseSkipEntry(entry).version)
          /\ ~Reached(InfoOf(entry).wanted, parseSkipEntry(entry).version)

C15_RemovedWhenNeitherWantedNorLatest ==
    CleanupRan =>
        \A k \in DOMAIN skipConfig.packages :
            LET entry == skipConfig.packages[k]
                parsed == parseSkipEntry(entry)
            IN /\ ~NoVersion(parsed)
               /\ StillOutdated(entry)
               /\ parsed.version # InfoOf(entry).wanted
               /\ parsed.version # InfoOf(entry).latest
               => entry \notin Range(Cleaned)

(***************************************************************************)
(* Properties of buildRows and daysAgo                                     *)
(***************************************************************************)
RowsDone == rowsOut # <<>>
AgesDone == ageOut # <<>>

\* The entries of the outdated map.
Packages == {outdated[k] : k \in DOMAIN outdated}

\* The rows of a call that list the package.
RowsFor(c, name) == {k \in DOMAIN rowsOut[c] : rowsOut[c][k].Package = name}

\* The latest version the claim resolves for an entry, and the ages of its
\* wanted and of its resolved latest version.
ResolvedLatest(info) ==
    IF info.latest # <<>> THEN info.latest ELSE MetaOf(metas, info.name).latest

StampOf(info, version) == parseIsoZ(TimeOf(MetaOf(metas, info.name), version))
AgeOf(info, version) == daysAgo(StampOf(info, version), now)

ShouldSkip(info) ==
    shouldSkipPackage(info.name, info.current, info.wanted, info.latest, skipPackages)

\* C16: every row carries as Latest the detector's latest when that is
\* non-empty and the metadata's latest otherwise, and its ToLatest label,
\* its latest timestamp and its latest age are those of this version.
C16_LatestFromDetectorFirst ==
    RowsDone =>
        \A c \in RowCalls : \A info \in Packages : \A k \in RowsFor(c, info.name) :
            LET row == rowsOut[c][k]
                resolved == ResolvedLatest(info)
                stamp == StampOf(info, resolved)
            IN /\ row.Latest = resolved
               /\ row._latest = resolved
               /\ row.ToLatest = (IF resolved # <<>> THEN bumpType(info.current, resolved)
                                  ELSE "unknown")
               /\ row._published_latest = (IF stamp = Null THEN 0 ELSE stamp[1])
               /\ row.PublishedLatest = fmtTime(stamp, c[3])
               /\ row.AgeLatest = AgeText(AgeOf(info, resolved))

\* C16 witness: the detector says 2.0.0 for a and nothing for B, the
\* registry says 2.1.0 for both: the rows say 2.0.0 (major) and 2.1.0.
C16_Witness ==
    /\ RowsDone
    /\ outdated = <<[name |-> NameA, current |-> V100, wanted |-> V110, latest |-> V200],
                    [name |-> NameUpper, current |-> V100, wanted |-> V110, latest |-> <<>>]>>
    /\ DOMAIN metas = {NameA, NameUpper}
    /\ metas[NameA].latest = V210
    /\ metas[NameUpper].latest = V210
    /\ skipPackages = <<>>
    /\ Len(rowsOut[<<TRUE, 0, FALSE>>]) = 2
    /\ rowsOut[<<TRUE, 0, FALSE>>][1].Latest = V200
    /\ rowsOut[<<TRUE, 0, FALSE>>][1].ToLatest = "major"
    /\ rowsOut[<<TRUE, 0, FALSE>>][2].Latest = V210
    /\ rowsOut[<<TRUE, 0, FALSE>>][2].AgeLatest = <<"1", "1">>

\* An age is known and at least the cutoff.
Old(age, cutoffDays) == age # Null /\ age[1] >= cutoffDays

C18_CutoffZeroIsShowAll ==
    RowsDone => rowsOut[<<FALSE, 0, FALSE>>] = rowsOut[<<TRUE, 0, FALSE>>]

\* C19: daysAgo of a known timestamp is max(0, floor((now - ts) / 86400000)):
\* never negative, 0 for a timestamp in the future or less than a day old;
\* and it is null exactly when the timestamp is null.
C19_DaysAgo ==
    AgesDone =>
        \A k \in DOMAIN ageOut :
            LET ms == ageOut[k].ms
                age == ageOut[k].age
            IN /\ (age = Null) <=> (ms = Null)
               /\ ms # Null =>
                    LET delta == now - ms[1]
                    IN /\ age[1] >= 0
                       /\ delta < DayLength => age[1] = 0
                       /\ delta >= 0 => /\ age[1] * DayLength <= delta
                                        /\ delta < (age[1] + 1) * DayLength

\* C19 witness: 722 hours ago is 30 days, 24 hours ago 1 day, 23 hours ago
\* and 24 hours ahead 0 days, null is null.
C19_Witness ==
    /\ AgesDone
    /\ \E k \in DOMAIN ageOut : ageOut[k].ms = Num(now - 722) /\ ageOut[k].age = Num(30)
    /\ \E k \in DOMAIN ageOut : ageOut[k].ms = Num(now - 24) /\ ageOut[k].age = Num(1)
    /\ \E k \in DOMAIN ageOut : ageOut[k].ms = Num(now - 23) /\ ageOut[k].age = Num(0)
    /\ \E k \in DOMAIN ageOut : ageOut[k].ms = Num(now + 24) /\ ageOut[k].age = Num(0)
    /\ \E k \in DOMAIN ageOut : ageOut[k].ms = Null /\ ageOut[k].age = Null

\* C20: a package for which shouldSkipPackage is true has no row, whatever
\* showAll, cutoffDays and the metadata are; a package for which it is false
\* has a row exactly when it has one under the empty skip list.
C20_SkippedNeverListed ==
    RowsDone =>
        \A c \in RowCalls :
            LET unskipped == buildRows(outdated, metas, c[1], c[2], c[3], <<>>, now)
            IN \A info \in Packages :
                IF ShouldSkip(info)
                THEN RowsFor(c, info.name) = {}
                ELSE (RowsFor(c, info.name) # {}
                        <=> \E k \in DOMAIN unskipped : unskipped[k].Package = info.name)

\* C20 witness: with a on the skip list only B is listed, though both
\* would be without it.
C20_Witness ==
    /\ RowsDone
    /\ skipPackages = <<NameA>>
    /\ Len(outdated) = 2
    /\ Len(rowsOut[<<TRUE, 0, FALSE>>]) = 1
    /\ rowsOut[<<TRUE, 0, FALSE>>][1].Package = NameUpper
    /\ Len(buildRows(outdated, metas, TRUE, 0, FALSE, <<>>, now)) = 2

(***************************************************************************)
(* Classification against precedence                                       *)
(***************************************************************************)
\* Neither of the two versions is higher than the other.
NeitherHigher(i, j) == ~HigherOut(i, j) /\ ~HigherOut(j, i)

\* C28 as stated: for strings that parseSemver accepts, bumpType is 'same'
\* exactly when neither version is higher than the other.
C28_SameIffNeitherHigher ==
    ComparedAll /\ ClassifiedAll =>
        \A i, j \in Idx :
            Parses(ver[i]) /\ Parses(ver[j]) =>
                (BumpOut(i, j) = "same" <=> NeitherHigher(i, j))

\* C28 amended: 'same' implies that neither version is higher; neither is
\* higher exactly when bumpType is 'same' or the two differ only in leading
\* zeros of numeric prerelease identifiers (1.0.0-01 and 1.0.0-1), which
\* bumpType classifies as 'prerelease'.
C28_SameOrLeadingZerosIffNeitherHigher ==
    ComparedAll /\ ClassifiedAll =>
        \A i, j \in Idx :
            Parses(ver[i]) /\ Parses(ver[j]) =>
                LET a == parseSemver(ver[i])
                    b == parseSemver(ver[j])
                IN /\ NeitherHigher(i, j) <=>
                        \/ BumpOut(i, j) = "same"
                        \/ /\ BumpOut(i, j) = "prerelease"
                           /\ a # b
                           /\ Canonical(a) = Canonical(b)
                   /\ a # b /\ Canonical(a) = Canonical(b) => BumpOut(i, j) = "prerelease"

\* C28 witness: v1.0.0 and 1.0.0+b are 'same' and neither is higher.
C28_Witness ==
    /\ ComparedAll
    /\ ClassifiedAll
    /\ ver[1] = MkVersion(<<"v">>, 1, 0, 0, <<>>, <<>>)
    /\ ver[2] = MkVersion(<<>>, 1, 0, 0, <<>>, <<"b">>)
    /\ BumpOut(1, 2) = "same"
    /\ NeitherHigher(1, 2)

(***************************************************************************)
(* Further properties of fetchWithConcurrency                              *)
(***************************************************************************)
\* The call is waiting for a completion: it awaits and resolve() was not
\* called yet.
Waiting == pc = "awaiting" /\ resolveCalls = 0

\* C23: the completion step that processes a settled fetcher launches the
\* next pending item itself, so whenever the call is waiting for a completion
\* either all items have been launched or exactly max(1, concurrency)
\* operations are in flight.
C23_RefillsImmediately ==
    Waiting => index = Len(items) \/ inFlight = limit

\* C23 witness: concurrency 1, the first of three completions was processed
\* and the second item is in flight, the third not yet launched.
C23_Witness ==
    /\ Waiting
    /\ concurrency = 1
    /\ Len(items) = 3
    /\ progressCalls = 1
    /\ index = 2
    /\ inFlight = 1

\* C24: given distinct items, the fetcher calls so far are the first index
\* items in submission order, one call each; an entry is written at most once
\* per item, only by the callbacks of that item, exactly once by the time
\* onProgress fires for it, and it keeps the outcome of that item from then on.
C24_OneWritePerItem ==
    Distinct(items) =>
        /\ fetcherCalls = SubSeq(items, 1, index)
        /\ \A i \in DOMAIN ops :
              /\ writeCount[i] <= 1
              /\ ops[i].stage \in {"idle", "pending", "then"} => writeCount[i] = 0
              /\ ops[i].stage \in {"finally", "done"} => writeCount[i] = 1
              /\ writeCount[i] = 1 =>
                    /\ items[i] \in DOMAIN results
                    /\ results[items[i]] = Recorded(i)
        /\ DOMAIN results = {items[i] : i \in {j \in DOMAIN ops : writeCount[j] = 1}}
        /\ pc = "done" => fetcherCalls = items /\ returned = results

\* C24 witness: two distinct items run concurrently; the second completed
\* first and its entry stands while the first one's is written.
C24_Witness ==
    /\ items = <<"a", "b">>
    /\ concurrency = 2
    /\ ops[2].stage = "done"
    /\ ops[1].stage = "finally"
    /\ ops[1].outcome = "ok"
    /\ ops[2].outcome = "fail"
    /\ results = [k \in {"a", "b"} |-> IF k = "a" THEN ops[1].value ELSE fallbackValue]
    /\ progressCalls = 1

\* C27: if every fetcher call settles at some time, the call resolves at some
\* time with every item launched and every completion processed, and
\* resolve() is called once: never twice, and exactly once for a call with
\* items when it has returned.
C27_EventuallyResolvesOnce ==
    /\ <>(pc = "done" /\ index = Len(items) /\ Unfinished = {})
    /\ [](resolveCalls <= 1)
    /\ [](pc = "done" /\ Len(items) > 0 => resolveCalls = 1)

\* C27 witness: three items under concurrency 2, one of them rejected, and
\* the call has returned after its single resolve().
C27_Witness ==
    /\ pc = "done"
    /\ Len(items) = 3
    /\ concurrency = 2
    /\ resolveCalls = 1
    /\ progressCalls = 3
    /\ \E i \in DOMAIN ops : ops[i].outcome = "fail"
    /\ \E i \in DOMAIN ops : ops[i].outcome = "ok"

(***************************************************************************)
(* Further properties of the skip-file cleanup                             *)
(***************************************************************************)
\* Everything cleanupAndSaveSkipFile needs to write: a configuration and a
\* path, autoCleanup not false, and at least one entry the filter drops.
WriteDue ==
    /\ skipConfig # Null
    /\ skipFilePath # Null
    /\ skipConfig.autoCleanup # "false"
    /\ Len(SelectSeq(skipConfig.packages, KeptByRule)) < Len(skipConfig.packages)

\* C26: cleanupAndSaveSkipFile calls writeFileSync only when WriteDue holds,
\* and then once, with the configuration whose packages are the kept entries;
\* otherwise the file is as it was loaded; and no step changes skipConfig, so
\* the list passed in keeps its entries.
C26_WritesOnlyWhenDue ==
    /\ [](cleanupPc = "done" =>
            /\ skipFile.writes = (IF WriteDue THEN 1 ELSE 0)
            /\ ~WriteDue => skipFile = FileOf(skipConfig, 0)
            /\ WriteDue =>
                  \/ skipFile.content = skipConfig
                  \/ skipFile.content =
                        [skipConfig EXCEPT
                            !.packages = SelectSeq(skipConfig.packages, KeptByRule)])
    /\ [](cleanupPc = "start" => skipFile = FileOf(skipConfig, 0))
    /\ [][skipConfig' = skipConfig]_vars

\* C26 witness: of two entries one was dropped and the file was written with
\* the remaining one, while skipConfig.packages still has both.
C26_Witness ==
    /\ cleanupPc = "done"
    /\ WriteDue
    /\ skipFile.writes = 1
    /\ Len(skipConfig.packages) = 2
    /\ Len(skipFile.content.packages) = 1
    /\ skipConfig.autoCleanup = "undefined"

\* The entry alone makes shouldSkipPackage true for the package at position k
\* of the outdated map.
Suppresses(entry, k) ==
    shouldSkipPackage(outdated[k].name, outdated[k].current, outdated[k].wanted,
                      outdated[k].latest, <<entry>>)

\* C29: for a package of the outdated map whose latest is higher than its
\* current under isVersionHigher, the cleanup keeps every versioned entry that
\* makes shouldSkipPackage true for it; and it keeps every unversioned entry
\* whose package is in the outdated map.
C29_SuppressingEntriesKept ==
    CleanupRan =>
        \A e \in Range(skipConfig.packages) :
            /\ \A k \in DOMAIN outdated :
                  /\ isVersionHigher(outdated[k].latest, outdated[k].current)
                  /\ ~NoVersion(parseSkipEntry(e))
                  /\ Suppresses(e, k)
                  => e \in Range(Cleaned)
            /\ NoVersion(parseSkipEntry(e)) /\ StillOutdated(e) => e \in Range(Cleaned)

\* C29 witness: a@2.0.0 hides a (1.0.0, wanted 1.0.0, latest 2.0.0) and stays,
\* while the cleanup drops the entry of b, which is not outdated.
C29_Witness ==
    /\ CleanupRan
    /\ outdated = <<[name |-> NameA, current |-> V100, wanted |-> V100, latest |-> V200]>>
    /\ skipConfig.packages = <<Entry(NameB, V200), Entry(NameA, V200)>>
    /\ Suppresses(Entry(NameA, V200), 1)
    /\ Cleaned = <<Entry(NameA, V200)>>
    /\ skipFile.writes = 1

(***************************************************************************)
(* Further properties of buildRows                                         *)
(***************************************************************************)
\* s is t with some elements left out.
RECURSIVE IsSubseq(_, _)
IsSubseq(s, t) ==
    IF s = <<>> THEN TRUE
    ELSE IF t = <<>> THEN FALSE
    ELSE IF Head(s) = Head(t) THEN IsSubseq(Tail(s), Tail(t))
    ELSE IsSubseq(s, Tail(t))

\* The rows of the call with the filter (showAll, cutoff), in plain format.
RowsAt(showAll, cutoff) == rowsOut[<<showAll, cutoff, FALSE>>]

\* The package names of a sequence of rows, and of the outdated map.
NamesOf(rws) == [k \in DOMAIN rws |-> rws[k].Package]
OutdatedNames == [k \in DOMAIN outdated |-> outdated[k].name]

\* C30: on the same outdated map, metadata, skip list and clock, the rows of
\* a filtered call with cutoff c2 are a subsequence of those with any cutoff
\* c1 <= c2, which are a subsequence of those of a showAll call; and the
\* package names of every result are distinct and a subsequence of the names
\* of the outdated map.
C30_MonotoneInFilters ==
    RowsDone =>
        /\ \A c1, c2 \in CutoffInputs : c1 <= c2 =>
              IsSubseq(RowsAt(FALSE, c2), RowsAt(FALSE, c1))
        /\ \A c1, c \in CutoffInputs : IsSubseq(RowsAt(FALSE, c1), RowsAt(TRUE, c))
        /\ \A call \in RowCalls :
              /\ Distinct(NamesOf(rowsOut[call]))
              /\ IsSubseq(NamesOf(rowsOut[call]), OutdatedNames)

\* C30 witness: two packages; both are listed under showAll, one under the
\* cutoff of 20 days, none under 50.
C30_Witness ==
    /\ RowsDone
    /\ Len(outdated) = 2
    /\ Len(RowsAt(TRUE, 0)) = 2
    /\ Len(RowsAt(FALSE, 16)) = 2
    /\ Len(RowsAt(FALSE, 20)) = 1
    /\ Len(RowsAt(FALSE, 50)) = 0

(***************************************************************************)
(* Properties of sortRows                                                  *)
(***************************************************************************)
SortDone == sorted # Null
Sorted == sorted[1]

\* How often x occurs in the sequence s.
Count(s, x) == Cardinality({k \in DOMAIN s : s[k] = x})

\* C21: no step changes the array passed to sortRows, so after the call it
\* has the same rows in the same order, for every key and direction; and the
\* array returned has the rows of the input, each as often as the input.
C21_InputUntouched ==
    /\ [][rows' = rows]_vars
    /\ [](SortDone =>
            /\ Len(Sorted) = Len(rows)
            /\ \A r \in Range(rows) \cup Range(Sorted) : Count(Sorted, r) = Count(rows, r))

\* C21 witness: three rows in an order that sorting by name, descending,
\* changes: the result differs from the array passed in.
C21_Witness ==
    /\ SortDone
    /\ Len(rows) = 3
    /\ sortBy = "name"
    /\ order = "desc"
    /\ Sorted # rows
    /\ rows[1]._name = <<"a">>

\* The field a sort key selects; keys that are none of the eight select the
\* timestamp of the latest version.
NumericFields == {"age_latest", "age_wanted", "published_latest", "published_wanted"}
StringFields == {"name", "current", "wanted", "latest"}

SelectedField == IF sortBy \in NumericFields \cup StringFields THEN sortBy
                 ELSE "published_latest"

RawValue(r) ==
    CASE SelectedField = "age_latest" -> r._age_latest
      [] SelectedField = "age_wanted" -> r._age_wanted
      [] SelectedField = "published_latest" -> r._published_latest
      [] SelectedField = "published_wanted" -> r._published_wanted
      [] SelectedField = "name" -> r._name
      [] SelectedField = "current" -> r.Current
      [] SelectedField = "wanted" -> r.Wanted
      [] SelectedField = "latest" -> r._latest

\* x < y on the raw values of the selected field.
RawBelow(x, y) ==
    IF SelectedField \in NumericFields THEN RawValue(x) < RawValue(y)
    ELSE AsciiHigher(RawValue(y), RawValue(x))

RawEqual(x, y) == ~RawBelow(x, y) /\ ~RawBelow(y, x)

\* The one-to-one maps of the positions 1 .. n onto themselves.
PositionMaps(n) == {p \in [1 .. n -> 1 .. n] : \A i, j \in 1 .. n : p[i] = p[j] => i = j}

\* C22: the result lists the rows of the input in non-decreasing ('asc') or
\* non-increasing ('desc') raw value of the selected field, rows of equal
\* value in their order of the input in both directions; a key that is none
\* of the eight selects published_latest.
C22_StableByRawValue ==
    SortDone =>
        \E p \in PositionMaps(Len(rows)) :
            /\ Len(Sorted) = Len(rows)
            /\ \A i \in DOMAIN Sorted : Sorted[i] = rows[p[i]]
            /\ \A i, j \in DOMAIN Sorted : i < j =>
                  /\ order = "desc" => ~RawBelow(Sorted[i], Sorted[j])
                  /\ order # "desc" => ~RawBelow(Sorted[j], Sorted[i])
                  /\ RawEqual(Sorted[i], Sorted[j]) => p[i] < p[j]

\* C22 witness: sorted by 'published', which is no case of the switch, in
\* descending order: the result differs from the input and two rows of the
\* same latest timestamp are in it.
C22_Witness ==
    /\ SortDone
    /\ sortBy = "published"
    /\ order = "desc"
    /\ Len(rows) = 3
    /\ Sorted # rows
    /\ \E i, j \in DOMAIN Sorted :
          /\ i < j
          /\ Sorted[i]._published_latest = Sorted[j]._published_latest
          /\ Sorted[i]._published_latest > 0

(***************************************************************************)
(* fetchWithConcurrency against a pool of workers                          *)
(***************************************************************************)
\* A pool of max(1, concurrency) workers over a FIFO queue of the items. Its
\* state, side by side with the call: the items taken from the queue are the
\* fetcher calls made so far, the operations done are those whose completion
\* was processed, and the workers are busy with the taken ones not yet done.
PoolSize == IF concurrency >= 1 THEN concurrency ELSE 1
PoolTaken == Len(fetcherCalls)
PoolDone == Finished
PoolBusy == (1 .. PoolTaken) \ PoolDone

\* All workers start: each takes one item, in queue order, while there are any.
PoolStart ==
    /\ pc = "start"
    /\ pc' # "start"
    /\ fetcherCalls' = SubSeq(items, 1, IF Len(items) < PoolSize THEN Len(items) ELSE PoolSize)
    /\ PoolDone' = {}
    /\ results' = results
    /\ Len(items) = 0 => pc' = "done" /\ returned' = EmptyRecord

\* The worker on position i records the outcome of its operation.
PoolRecord(i) ==
    /\ i \in PoolBusy
    /\ results' = SetKey(results, items[i], Recorded(i))
    /\ UNCHANGED <<fetcherCalls, pc>>
    /\ PoolDone' = PoolDone

\* The worker on position i has recorded an outcome for its item, is done
\* with it and takes the next item of the queue, if there is one.
PoolNextItem(i) ==
    /\ i \in PoolBusy
    /\ items[i] \in DOMAIN results
    /\ PoolDone' = PoolDone \cup {i}
    /\ fetcherCalls' = IF PoolTaken < Len(items)
                       THEN Append(fetcherCalls, items[PoolTaken + 1])
                       ELSE fetcherCalls
    /\ UNCHANGED <<results, pc>>

\* The queue is empty and every worker idle: the pool hands out the mapping.
PoolReturn ==
    /\ pc = "awaiting"
    /\ pc' = "done"
    /\ PoolTaken = Len(items)
    /\ PoolBusy = {}
    /\ returned' = results
    /\ UNCHANGED <<fetcherCalls, results>>
    /\ PoolDone' = PoolDone

\* An operation settles, or a callback runs that has nothing to record: the
\* pool does not move.
PoolWaits ==
    /\ UNCHANGED <<fetcherCalls, results, pc, returned>>
    /\ PoolDone' = PoolDone

PoolStep ==
    \/ PoolStart
    \/ \E i \in DOMAIN ops : PoolRecord(i) \/ PoolNextItem(i)
    \/ PoolReturn
    \/ PoolWaits

\* C25: every step of the call is a step of the pool of max(1, concurrency)
\* workers on the same items and outcomes: items are launched in queue
\* order, the operations in flight are at every step those the workers are
\* busy with, never more than the pool has workers, and outcomes are recorded
\* and the mapping returned as by the pool.
C25_RunsAsWorkerPool ==
    /\ [][PoolStep]_vars
    /\ [](/\ Unfinished = PoolBusy
          /\ inFlight = Cardinality(PoolBusy)
          /\ Cardinality(PoolBusy) <= PoolSize
          /\ pc = "awaiting" /\ resolveCalls = 0 /\ PoolTaken < Len(items)
                => Cardinality(PoolBusy) = PoolSize)

\* C25 witness: two workers, three items; the second operation completed
\* first, its worker took the third item, and the first is still running.
C25_Witness ==
    /\ concurrency = 2
    /\ Len(items) = 3
    /\ PoolDone = {2}
    /\ PoolBusy = {1, 3}
    /\ PoolTaken = 3
    /\ ops[1].stage = "pending"
    /\ ops[3].stage = "pending"

====
